---- MODULE Spec2Model ----
(***************************************************************************)
(* A model of cppstringx (include/cppstringx/cppstringx.hpp): the forward  *)
(* substring search, the replace_all family, the two split iterators, the  *)
(* split_token function and join.                                          *)
(*                                                                         *)
(* A text is a sequence of code units.  A terminated iterator over a text  *)
(* is a position 1..Len+1 in it; Len+1 is the end position.  A range is a  *)
(* record [begin, end] of two positions and denotes [begin, end).          *)
(***************************************************************************)
EXTENDS Integers, Sequences, FiniteSets, TLC

\* ---------------------------------------------------------------- bounds
\* Longest text the caller passes in.
MaxLen == 4
\* Longest pattern / separator token / separator character list.
MaxPat == 2
\* Longest replacement text.
MaxRepl == 2
\* A growable text may grow by this much over MaxLen before calls that would
\* grow it further are no longer taken.
MaxGrow == 2

\* Most elements the output container takes.
MaxContainer == 5
\* Longest join target.
MaxTarget == 4

\* The code units the texts are made of.
Units == {1, 2}

SeqsUpTo(S, n) == UNION {[1..k -> S] : k \in 0..n}

Texts == SeqsUpTo(Units, MaxLen)
Patterns == SeqsUpTo(Units, MaxPat)
Replacements == SeqsUpTo(Units, MaxRepl)

\* The comparers the callers pass: the library's equals_comparer, the wildcard
\* lambda and the asymmetric lambda of the tests.
Comparers == {"equals", "wildcard", "shifted"}
\* enum class split_mode
SplitModes == {"all", "skip_empty"}
\* The unit that plays '?' for the wildcard comparer.
Wildcard == 2

\* No iterator object exists.
NoIterator == [kind |-> "none"]
\* A default-constructed range.
NullRange == [begin |-> 0, end |-> 0]

\* --------------------------------------------------------------- program state
VARIABLES
    text,         \* the text operand; a growable string object for in-place calls
    pattern,      \* contained_string / text_to_be_replaced / separator_token / separator_characters
    replacement,  \* text_to_replace_with
    comparer,     \* the equals comparer passed to the call
    mode,         \* the split_mode passed to the call
    op,           \* the operation called last
    thrown,       \* "none", or the exception the last call left with
    ret_bool,     \* the value returned by the last predicate call
    ret_text,     \* the text returned by the last copy call
    split_it,     \* the split iterator object, NoIterator before its construction
    yielded,      \* the ranges the loop "while (!is_end_position()) { use *it; ++it; }" has seen
    container,    \* the output container of split_token, the items of join
    target,       \* the target text of join
    clear,        \* the clear_container / clear_target argument of the last call
    shape,        \* how the caller holds the text: "string", "range" or "buffer"
    buffer,       \* the raw buffer p_text points to: units, a terminating 0, what lies behind it
    view,         \* the range object over the text
    predicate,    \* the is_something predicate passed to the trim calls
    converter,    \* the character converter passed to the convert calls
    trim_start_enable,  \* the flags of the last trim call
    trim_end_enable,
    ret_range,    \* the range returned by the last call on a range
    count         \* the count argument of the last advance(count)

vars == <<text, pattern, replacement, comparer, mode, op, thrown, ret_bool, ret_text,
          split_it, yielded, container, target, clear,
          shape, buffer, view, predicate, converter, trim_start_enable, trim_end_enable,
          ret_range, count>>

\* The variables of the iterator and of the container functions.
splitVars == <<split_it, yielded, container, target, clear>>

\* The variables of the trim calls, of the convert calls and of advance(count).
trimVars == <<shape, buffer, view, predicate, converter, trim_start_enable, trim_end_enable,
              ret_range, count>>

\* No trim, convert or advance(count) call has been made and the text is held
\* in a string object.
InitTrimVars ==
    /\ shape = "string"
    /\ buffer = <<0>>
    /\ view = NullRange
    /\ predicate = "is_space"
    /\ converter = "to_lower_case_converter"
    /\ trim_start_enable = FALSE
    /\ trim_end_enable = FALSE
    /\ ret_range = NullRange
    /\ count = 0

\* ------------------------------------------------------------ capability objects
\* std::tolower(value, locale) and std::toupper(value, locale) of a single-byte
\* unit in the classic locale, which the default-constructed std::locale is.
tolower(value) == IF value \in 65..90 THEN value + 32 ELSE value
toupper(value) == IF value \in 97..122 THEN value - 32 ELSE value

\* comparer(value_lhs, value_rhs) that lowers the text unit only.
compare_lowering_lhs_only(c, value_lhs, value_rhs) ==
    CASE c = "equals"   -> value_lhs = value_rhs
      [] c = "wildcard" -> IF value_rhs = Wildcard THEN TRUE ELSE value_lhs = value_rhs
      [] c = "shifted"  -> value_lhs - 1 = value_rhs
      [] c = "equals_ignoring_case" -> tolower(value_lhs) = value_rhs

\* comparer(value_lhs, value_rhs) called with the unit of the pattern first.
compare_pattern_unit_first(c, value_lhs, value_rhs) ==
    CASE c = "equals"   -> value_rhs = value_lhs
      [] c = "wildcard" -> IF value_lhs = Wildcard THEN TRUE ELSE value_rhs = value_lhs
      [] c = "shifted"  -> value_rhs - 1 = value_lhs
      [] c = "equals_ignoring_case" -> tolower(value_rhs) = tolower(value_lhs)

\* comparer(value_lhs, value_rhs): lhs is a unit of the text, rhs of the pattern.
compare(c, value_lhs, value_rhs) ==
    CASE c = "equals"   -> value_lhs = value_rhs
      [] c = "wildcard" -> IF value_rhs = Wildcard THEN TRUE ELSE value_lhs = value_rhs
      [] c = "shifted"  -> value_lhs - 1 = value_rhs
      [] c = "equals_ignoring_case" -> tolower(value_lhs) = tolower(value_rhs)

\* ------------------------------------------------------------ terminated iterator
\* endpos_terminated_string_iterator::is_end_position: position == end.
is_end_position(s, p) == p = Len(s) + 1

\* ------------------------------------------------------------ find_forward_optimized
\* The inner for-loop of find_forward_optimized, started with the text compare
\* iterator at i and the pattern compare iterator at j; the value is the pair of
\* positions the two iterators have when the loop is left.
RECURSIVE find_compare_loop(_, _, _, _, _)
find_compare_loop(s, i, p, j, c) ==
    IF ~is_end_position(s, i) /\ ~is_end_position(p, j) /\ compare(c, s[i], p[j])
    THEN find_compare_loop(s, i + 1, p, j + 1, c)
    ELSE <<i, j>>

\* The outer for-loop of find_forward_optimized with itt_text at i; the value is
\* <<itt_text, itt_text_compare_loop, itt_contained_string_compare_loop>> when
\* the loop is left.
RECURSIVE find_outer_loop(_, _, _, _)
find_outer_loop(s, i, p, c) ==
    IF is_end_position(s, i)
    THEN <<i, i, 1>>
    ELSE LET r == find_compare_loop(s, i, p, 1, c)
         IN  IF is_end_position(p, r[2]) \/ is_end_position(s, r[1])
             THEN <<i, r[1], r[2]>>
             ELSE find_outer_loop(s, i + 1, p, c)

\* find_forward_optimized that reports the units compared last as found, also
\* when the text ended before the contained string did.
find_forward_optimized_partial(s, i, p, c) ==
    LET l == find_outer_loop(s, i, p, c)
    IN  [begin |-> l[1], end |-> l[2]]

find_forward_optimized(s, i, p, c) ==
    LET l == find_outer_loop(s, i, p, c)
    IN  IF is_end_position(p, l[3])
        THEN [begin |-> l[1], end |-> l[2]]
        ELSE [begin |-> l[2], end |-> l[2]]

\* ------------------------------------------------------------ contains
\* contains without the test for an empty contained_string.
contains_no_empty_test(s, contained_string, c) ==
    ~is_end_position(s, find_forward_optimized(s, 1, contained_string, c).begin)

contains(s, contained_string, c) ==
    is_end_position(contained_string, 1)
    \/ ~is_end_position(s, find_forward_optimized(s, 1, contained_string, c).begin)

\* ------------------------------------------------------------ replace
\* The inner for-loop of replace_all_copy_forward.
RECURSIVE replace_compare_loop(_, _, _, _, _)
replace_compare_loop(s, i, p, j, c) ==
    IF ~is_end_position(s, i) /\ ~is_end_position(p, j)
    THEN IF ~compare(c, s[i], p[j])
         THEN <<i, j>>
         ELSE replace_compare_loop(s, i + 1, p, j + 1, c)
    ELSE <<i, j>>

\* replace_all_copy_forward that resumes one unit after the start of a match
\* instead of directly after the matched units.
RECURSIVE replace_all_copy_forward_overlapping(_, _, _, _, _, _)
replace_all_copy_forward_overlapping(result, s, i, p, r, c) ==
    IF is_end_position(s, i)
    THEN result
    ELSE LET l == replace_compare_loop(s, i, p, 1, c)
         IN  IF is_end_position(p, l[2])
             THEN replace_all_copy_forward_overlapping(result \o r, s, i + 1, p, r, c)
             ELSE replace_all_copy_forward_overlapping(Append(result, s[i]), s, i + 1, p, r, c)

\* replace_all_copy_forward(result, itt_text, ...): the result is appended to.
RECURSIVE replace_all_copy_forward(_, _, _, _, _, _)
replace_all_copy_forward(result, s, i, p, r, c) ==
    IF is_end_position(s, i)
    THEN result
    ELSE LET l == replace_compare_loop(s, i, p, 1, c)
         IN  IF is_end_position(p, l[2])
             THEN replace_all_copy_forward(result \o r, s, l[1], p, r, c)
             ELSE replace_all_copy_forward(Append(result, s[i]), s, i + 1, p, r, c)

\* replace_all_in_place_forward whose copied tail starts at the begin of the
\* first match instead of at its end.
replace_all_in_place_forward_tail_at_begin(s, p, r, c) ==
    LET first_range_to_be_replaced == find_forward_optimized(s, 1, p, c)
    IN  IF ~is_end_position(s, first_range_to_be_replaced.begin)
        THEN LET copied_tail == SubSeq(s, first_range_to_be_replaced.begin, Len(s))
                 resized == SubSeq(s, 1, first_range_to_be_replaced.begin - 1)
             IN  replace_all_copy_forward(resized \o r, copied_tail, 1, p, r, c)
        ELSE s

replace_all_in_place_forward(s, p, r, c) ==
    LET first_range_to_be_replaced == find_forward_optimized(s, 1, p, c)
    IN  IF ~is_end_position(s, first_range_to_be_replaced.begin)
        THEN LET copied_tail == SubSeq(s, first_range_to_be_replaced.end, Len(s))
                 resized == SubSeq(s, 1, first_range_to_be_replaced.begin - 1)
             IN  replace_all_copy_forward(resized \o r, copied_tail, 1, p, r, c)
        ELSE s

\* The facades: [thrown, value].
replace_all_copy(s, p, r, c) ==
    IF is_end_position(p, 1)
    THEN [thrown |-> "invalid_argument", value |-> <<>>]
    ELSE [thrown |-> "none", value |-> replace_all_copy_forward(<<>>, s, 1, p, r, c)]

\* replace_all_in_place that clips the text before it tests the pattern.
replace_all_in_place_clip_first(s, p, r, c) ==
    IF is_end_position(p, 1)
    THEN [thrown |-> "invalid_argument", value |-> <<>>]
    ELSE [thrown |-> "none", value |-> replace_all_in_place_forward(s, p, r, c)]

replace_all_in_place(s, p, r, c) ==
    IF is_end_position(p, 1)
    THEN [thrown |-> "invalid_argument", value |-> s]
    ELSE [thrown |-> "none", value |-> replace_all_in_place_forward(s, p, r, c)]

\* ------------------------------------------------------------ calls on a text
InitText ==
    /\ text \in Texts
    /\ pattern \in Patterns
    /\ replacement \in Replacements
    /\ comparer \in Comparers
    /\ op = "none"
    /\ thrown = "none"
    /\ ret_bool = FALSE
    /\ ret_text = <<>>
    /\ mode = "all"
    /\ split_it = NoIterator
    /\ yielded = <<>>
    /\ container = <<>>
    /\ target = <<>>
    /\ clear = FALSE
    /\ InitTrimVars

Contains ==
    /\ op' = "contains"
    /\ thrown' = "none"
    /\ ret_bool' = contains(text, pattern, comparer)
    /\ UNCHANGED trimVars
    /\ UNCHANGED <<text, pattern, replacement, comparer, mode, ret_text, splitVars>>

ReplaceAllCopy ==
    LET r == replace_all_copy(text, pattern, replacement, comparer)
    IN  /\ op' = "replace_all_copy"
        /\ thrown' = r.thrown
        /\ ret_text' = r.value
        /\ UNCHANGED trimVars
        /\ UNCHANGED <<text, pattern, replacement, comparer, mode, ret_bool, splitVars>>

ReplaceAllInPlace ==
    LET r == replace_all_in_place(text, pattern, replacement, comparer)
    IN  /\ Len(r.value) <= MaxLen + MaxGrow
        /\ op' = "replace_all_in_place"
        /\ thrown' = r.thrown
        /\ text' = r.value
        /\ UNCHANGED trimVars
        /\ UNCHANGED <<pattern, replacement, comparer, mode, ret_bool, ret_text, splitVars>>

NextText == Contains \/ ReplaceAllCopy \/ ReplaceAllInPlace

SpecText == InitText /\ [][NextText]_vars

\* ------------------------------------------------------------ is_any_of
\* utility::is_any_of::operator(): value is one of the listed characters.
is_any_of(separator_characters, value) ==
    \E k \in 1..Len(separator_characters) : separator_characters[k] = value

\* ------------------------------------------------------------ split_token_iterator

\* token_advance that never advances again over an empty section.
token_advance_no_skip(it, s, sep, c) ==
    IF it.is_end
    THEN it
    ELSE LET at_end == is_end_position(s, it.current_separator.begin)
             start  == it.current_separator.end
             found  == find_forward_optimized(s, start, sep, c)
         IN  [it EXCEPT !.is_end = at_end,
                        !.itt_text = start,
                        !.current_separator = found,
                        !.current_range = [begin |-> start, end |-> found.begin]]

\* token_advance that is at end as soon as the next section starts at the end
\* of the text.
RECURSIVE token_advance_end_at_text_end(_, _, _, _)
token_advance_end_at_text_end(it, s, sep, c) ==
    IF it.is_end
    THEN it
    ELSE LET start  == it.current_separator.end
             at_end == is_end_position(s, start)
             found  == find_forward_optimized(s, start, sep, c)
             next   == [it EXCEPT !.is_end = at_end,
                                  !.itt_text = start,
                                  !.current_separator = found,
                                  !.current_range = [begin |-> start, end |-> found.begin]]
         IN  IF it.used_mode = "skip_empty" /\ found.begin = start
             THEN token_advance_end_at_text_end(next, s, sep, c)
             ELSE next

\* token_advance that goes back to the start of the text when it is at end.
RECURSIVE token_advance_back_to_start(_, _, _, _)
token_advance_back_to_start(it, s, sep, c) ==
    IF it.is_end
    THEN [it EXCEPT !.is_end = FALSE,
                    !.itt_text = 1,
                    !.current_separator = [begin |-> 1, end |-> 1],
                    !.current_range = [begin |-> 1, end |-> 1]]
    ELSE LET at_end == is_end_position(s, it.current_separator.begin)
             start  == it.current_separator.end
             found  == find_forward_optimized(s, start, sep, c)
             next   == [it EXCEPT !.is_end = at_end,
                                  !.itt_text = start,
                                  !.current_separator = found,
                                  !.current_range = [begin |-> start, end |-> found.begin]]
         IN  IF it.used_mode = "skip_empty" /\ found.begin = start
             THEN token_advance_back_to_start(next, s, sep, c)
             ELSE next

\* token_advance whose next section starts one unit behind the start of the
\* separator found last.
RECURSIVE token_advance_one_unit_separator(_, _, _, _)
token_advance_one_unit_separator(it, s, sep, c) ==
    IF it.is_end
    THEN it
    ELSE LET at_end == is_end_position(s, it.current_separator.begin)
             start  == IF it.current_separator.begin # it.current_separator.end
                       THEN it.current_separator.begin + 1
                       ELSE it.current_separator.end
             found  == find_forward_optimized(s, start, sep, c)
             next   == [it EXCEPT !.is_end = at_end,
                                  !.itt_text = start,
                                  !.current_separator = found,
                                  !.current_range = [begin |-> start, end |-> found.begin]]
         IN  IF it.used_mode = "skip_empty" /\ found.begin = start
             THEN token_advance_one_unit_separator(next, s, sep, c)
             ELSE next

\* split_token_iterator::advance(): one pass of the while loop per recursion.
\* s, sep and c are the text, the separator token and the comparer the
\* iterator refers to.
\* The next pass works on the members as the pass before left them, which
\* are computed once.
RECURSIVE token_advance(_, _, _, _)
token_advance(it, s, sep, c) ==
    IF it.is_end
    THEN it
    ELSE LET at_end == is_end_position(s, it.current_separator.begin)
             start  == it.current_separator.end
             found  == find_forward_optimized(s, start, sep, c)
             next   == [it EXCEPT !.is_end = at_end,
                                  !.itt_text = start,
                                  !.current_separator = found,
                                  !.current_range = [begin |-> start, end |-> found.begin]]
         IN  IF it.used_mode = "skip_empty" /\ found.begin = start
             THEN CHOOSE again \in {token_advance(members, s, sep, c) : members \in {next}} : TRUE
             ELSE next

\* The members as the constructor's initializer list sets them.
token_members(m) ==
    [kind |-> "token",
     itt_text |-> 1,
     current_separator |-> [begin |-> 1, end |-> 1],
     current_range |-> NullRange,
     used_mode |-> m,
     is_end |-> FALSE]

\* The constructor without the branch for an empty text.
split_token_iterator_always_advance(s, sep, m, c) ==
    IF is_end_position(sep, 1)
    THEN [thrown |-> "invalid_argument", it |-> NoIterator]
    ELSE [thrown |-> "none", it |-> token_advance(token_members(m), s, sep, c)]

\* The constructor that rejects an empty separator in mode skip_empty only.
split_token_iterator_throw_when_skipping(s, sep, m, c) ==
    IF is_end_position(sep, 1) /\ m = "skip_empty"
    THEN [thrown |-> "invalid_argument", it |-> NoIterator]
    ELSE IF ~is_end_position(s, 1) \/ m = "skip_empty"
         THEN [thrown |-> "none", it |-> token_advance(token_members(m), s, sep, c)]
         ELSE [thrown |-> "none",
               it |-> [token_members(m) EXCEPT !.current_range = [begin |-> 1, end |-> 1]]]

\* The constructor: [thrown, it].
split_token_iterator(s, sep, m, c) ==
    LET members == token_members(m)
    IN  IF is_end_position(sep, 1)
        THEN [thrown |-> "invalid_argument", it |-> NoIterator]
        ELSE IF ~is_end_position(s, 1) \/ m = "skip_empty"
             THEN [thrown |-> "none", it |-> token_advance(members, s, sep, c)]
             ELSE [thrown |-> "none",
                   it |-> [members EXCEPT !.current_range = [begin |-> 1, end |-> 1]]]

\* ------------------------------------------------------------ split_iterator
\* The for-loop of split_iterator::advance() that finds the next separator.
RECURSIVE find_separator_loop(_, _, _)
find_separator_loop(s, i, chars) ==
    IF ~is_end_position(s, i) /\ ~is_any_of(chars, s[i])
    THEN find_separator_loop(s, i + 1, chars)
    ELSE i

\* split_advance that goes one unit on before the first section as well.
RECURSIVE split_advance_without_is_start(_, _, _)
split_advance_without_is_start(it, s, chars) ==
    IF it.is_end
    THEN it
    ELSE LET at_end == is_end_position(s, it.current_separator)
             start  == IF ~at_end
                       THEN it.current_separator + 1
                       ELSE it.current_separator
             found  == find_separator_loop(s, start, chars)
             next   == [it EXCEPT !.is_end = at_end,
                                  !.is_start = FALSE,
                                  !.itt_text = start,
                                  !.current_separator = found,
                                  !.current_range = [begin |-> start, end |-> found]]
         IN  IF it.used_mode = "skip_empty" /\ found = start
             THEN split_advance_without_is_start(next, s, chars)
             ELSE next

\* split_iterator::advance(): one pass of the while loop per recursion.  s is
\* the text and chars the character list of the is_any_of predicate.
RECURSIVE split_advance(_, _, _)
split_advance(it, s, chars) ==
    IF it.is_end
    THEN it
    ELSE LET at_end == is_end_position(s, it.current_separator)
             start  == IF ~at_end /\ ~it.is_start
                       THEN it.current_separator + 1
                       ELSE it.current_separator
             found  == find_separator_loop(s, start, chars)
             next   == [it EXCEPT !.is_end = at_end,
                                  !.is_start = FALSE,
                                  !.itt_text = start,
                                  !.current_separator = found,
                                  !.current_range = [begin |-> start, end |-> found]]
         IN  IF it.used_mode = "skip_empty" /\ found = start
             THEN CHOOSE again \in {split_advance(members, s, chars) : members \in {next}} : TRUE
             ELSE next

\* The constructor, as make_split_chars_iterator calls it.
split_iterator(s, chars, m) ==
    LET members == [kind |-> "chars",
                    itt_text |-> 1,
                    current_separator |-> 1,
                    current_range |-> NullRange,
                    used_mode |-> m,
                    is_start |-> TRUE,
                    is_end |-> FALSE]
    IN  IF ~is_end_position(s, 1) \/ m = "skip_empty"
        THEN [thrown |-> "none", it |-> split_advance(members, s, chars)]
        ELSE [thrown |-> "none",
              it |-> [members EXCEPT !.current_range = [begin |-> 1, end |-> 1]]]

\* operator++ that starts over with the first section when it is at end.
increment_starting_over(it, s, sep, c) ==
    IF it.is_end
    THEN IF it.kind = "token"
         THEN split_token_iterator(s, sep, it.used_mode, c).it
         ELSE split_iterator(s, sep, it.used_mode).it
    ELSE IF it.kind = "token" THEN token_advance(it, s, sep, c) ELSE split_advance(it, s, sep)

\* operator++ of either iterator.
increment(it, s, sep, c) ==
    IF it.kind = "token" THEN token_advance(it, s, sep, c) ELSE split_advance(it, s, sep)

\* ------------------------------------------------------------ iterating
InitIter ==
    /\ text \in Texts
    /\ pattern \in Patterns
    /\ comparer \in Comparers
    /\ mode \in SplitModes
    /\ replacement = <<>>
    /\ op = "none"
    /\ thrown = "none"
    /\ ret_bool = FALSE
    /\ ret_text = <<>>
    /\ split_it = NoIterator
    /\ yielded = <<>>
    /\ container = <<>>
    /\ target = <<>>
    /\ clear = FALSE
    /\ InitTrimVars

\* The caller's loop looks at the current range when the iterator is not at end.
Seen(seen, it) ==
    IF it.kind # "none" /\ ~it.is_end THEN Append(seen, it.current_range) ELSE seen

MakeSplitTokenIterator ==
    LET r == split_token_iterator(text, pattern, mode, comparer)
    IN  /\ split_it = NoIterator
        /\ op' = "make_split_token_iterator"
        /\ thrown' = r.thrown
        /\ split_it' = r.it
        /\ yielded' = Seen(<<>>, r.it)
        /\ UNCHANGED trimVars
        /\ UNCHANGED <<text, pattern, replacement, comparer, mode, ret_bool, ret_text,
                       container, target, clear>>

MakeSplitCharsIterator ==
    LET r == split_iterator(text, pattern, mode)
    IN  /\ split_it = NoIterator
        /\ op' = "make_split_chars_iterator"
        /\ thrown' = r.thrown
        /\ split_it' = r.it
        /\ yielded' = Seen(<<>>, r.it)
        /\ UNCHANGED trimVars
        /\ UNCHANGED <<text, pattern, replacement, comparer, mode, ret_bool, ret_text,
                       container, target, clear>>

Increment ==
    /\ split_it # NoIterator
    /\ op' = "operator++"
    /\ thrown' = "none"
    /\ split_it' = increment(split_it, text, pattern, comparer)
    /\ yielded' = Seen(yielded, split_it')
    /\ UNCHANGED trimVars
    /\ UNCHANGED <<text, pattern, replacement, comparer, mode, ret_bool, ret_text,
                   container, target, clear>>

NextIter == MakeSplitTokenIterator \/ MakeSplitCharsIterator \/ Increment

SpecIter == InitIter /\ [][NextIter]_vars

\* The caller's loop "while (!it.is_end_position()) { ...; ++it; }" keeps
\* stepping.
SpecIterFair == SpecIter /\ WF_vars(Increment)

\* ------------------------------------------------------------ advance(count), advance_to_last
\* Largest count the callers pass to advance(count).
MaxAdvance == 3

\* advance(count) whose loop runs once more than count says.
RECURSIVE advance_count_one_more(_, _, _, _, _, _)
advance_count_one_more(it, s, sep, c, n, i) ==
    IF i <= n /\ ~it.is_end
    THEN advance_count_one_more(increment(it, s, sep, c), s, sep, c, n, i + 1)
    ELSE it

\* The for loop of advance(size_t count) of either iterator, at index i.
RECURSIVE advance_count(_, _, _, _, _, _)
advance_count(it, s, sep, c, n, i) ==
    IF i < n /\ ~it.is_end
    THEN advance_count(increment(it, s, sep, c), s, sep, c, n, i + 1)
    ELSE it

\* current_separator.begin().is_end_position() of the token iterator,
\* current_separator.is_end_position() of the character iterator.
separator_is_end_position(it, s) ==
    IF it.kind = "token"
    THEN is_end_position(s, it.current_separator.begin)
    ELSE is_end_position(s, it.current_separator)

\* The while loop of advance_to_last for split_mode::all.
RECURSIVE advance_to_last_all(_, _, _, _)
advance_to_last_all(it, s, sep, c) ==
    IF ~it.is_end /\ ~separator_is_end_position(it, s)
    THEN advance_to_last_all(increment(it, s, sep, c), s, sep, c)
    ELSE it

\* The while loop of advance_to_last for split_mode::skip_empty; the value is
\* the pair of *this and previous the loop is left with.
RECURSIVE advance_to_last_skip_empty(_, _, _, _, _)
advance_to_last_skip_empty(it, previous, s, sep, c) ==
    IF ~it.is_end
    THEN advance_to_last_skip_empty(increment(it, s, sep, c), it, s, sep, c)
    ELSE <<it, previous>>

\* advance_to_last that does not switch back to the previous position.
advance_to_last_no_switch_back(it, s, sep, c) ==
    IF ~it.is_end
    THEN IF it.used_mode = "all"
         THEN advance_to_last_all(it, s, sep, c)
         ELSE advance_to_last_skip_empty(it, NoIterator, s, sep, c)[1]
    ELSE it

\* advance_to_last() of either iterator; the iterator it leaves.
advance_to_last(it, s, sep, c) ==
    IF ~it.is_end
    THEN IF it.used_mode = "all"
         THEN advance_to_last_all(it, s, sep, c)
         ELSE advance_to_last_skip_empty(it, NoIterator, s, sep, c)[2]
    ELSE it

\* ------------------------------------------------------------ advancing
Advance ==
    \E n \in 0..MaxAdvance :
        /\ split_it # NoIterator
        /\ op' = "advance"
        /\ thrown' = "none"
        /\ count' = n
        /\ split_it' = advance_count(split_it, text, pattern, comparer, n, 0)
        /\ ret_bool' = ~split_it'.is_end
        /\ UNCHANGED <<text, pattern, replacement, comparer, mode, ret_text,
                       yielded, container, target, clear,
                       shape, buffer, view, predicate, converter,
                       trim_start_enable, trim_end_enable, ret_range>>

AdvanceToLast ==
    /\ split_it # NoIterator
    /\ op' = "advance_to_last"
    /\ thrown' = "none"
    /\ split_it' = advance_to_last(split_it, text, pattern, comparer)
    /\ ret_bool' = ~split_it'.is_end
    /\ UNCHANGED trimVars
    /\ UNCHANGED <<text, pattern, replacement, comparer, mode, ret_text,
                   yielded, container, target, clear>>

NextAdvance ==
    \/ MakeSplitTokenIterator
    \/ MakeSplitCharsIterator
    \/ Increment
    \/ Advance
    \/ AdvanceToLast

SpecAdvance == InitIter /\ [][NextAdvance]_vars

\* ------------------------------------------------------------ split_token
\* The while loop of split_token: emplace_back the current range, ++split_it.
RECURSIVE split_token_loop(_, _, _, _, _)
split_token_loop(cont, it, s, sep, c) ==
    IF it.is_end
    THEN cont
    ELSE split_token_loop(
             Append(cont, SubSeq(s, it.current_range.begin, it.current_range.end - 1)),
             token_advance(it, s, sep, c), s, sep, c)

\* split_token(container, text_to_iterate_over, separator_token, mode,
\* equals_comparer, clear_container): [thrown, container].
split_token(cont, s, sep, m, c, clear_container) ==
    LET cleared == IF clear_container THEN <<>> ELSE cont
        split_it_ctor == split_token_iterator(s, sep, m, c)
    IN  IF split_it_ctor.thrown # "none"
        THEN [thrown |-> split_it_ctor.thrown, container |-> cleared]
        ELSE [thrown |-> "none",
              container |-> split_token_loop(cleared, split_it_ctor.it, s, sep, c)]

\* ------------------------------------------------------------ copy, join
\* copy(target, text_to_copy, clear_target)
copy(tgt, text_to_copy, clear_target) ==
    (IF clear_target THEN <<>> ELSE tgt) \o text_to_copy

\* The for loop of join that also puts the separator before the first item.
RECURSIVE join_loop_separator_first(_, _, _, _, _)
join_loop_separator_first(tgt, items, k, separator, is_first) ==
    IF k > Len(items)
    THEN tgt
    ELSE join_loop_separator_first(
             copy(copy(tgt, separator, FALSE), items[k], FALSE),
             items, k + 1, separator, FALSE)

\* The range-based for loop of join, at item k.
RECURSIVE join_loop(_, _, _, _, _)
join_loop(tgt, items, k, separator, is_first) ==
    IF k > Len(items)
    THEN tgt
    ELSE join_loop(
             copy(IF is_first THEN tgt ELSE copy(tgt, separator, FALSE), items[k], FALSE),
             items, k + 1, separator, FALSE)

\* join that clears the target whatever clear_target says.
join_always_clear(tgt, items, separator, clear_target) ==
    join_loop(<<>>, items, 1, separator, TRUE)

\* join(target, container, separator, clear_target)
join(tgt, items, separator, clear_target) ==
    join_loop(IF clear_target THEN <<>> ELSE tgt, items, 1, separator, TRUE)

\* ------------------------------------------------------------ splitting and joining
InitSplit ==
    /\ text \in Texts
    /\ pattern \in Patterns
    /\ comparer \in Comparers
    /\ mode \in SplitModes
    /\ replacement = <<>>
    /\ op = "none"
    /\ thrown = "none"
    /\ ret_bool = FALSE
    /\ ret_text = <<>>
    /\ split_it = NoIterator
    /\ yielded = <<>>
    /\ container \in {<<>>, << <<1>> >>}
    /\ target = <<>>
    /\ clear = FALSE
    /\ InitTrimVars

SplitToken ==
    \E clear_container \in BOOLEAN :
        LET r == split_token(container, text, pattern, mode, comparer, clear_container)
        IN  /\ Len(r.container) <= MaxContainer
            /\ op' = "split_token"
            /\ clear' = clear_container
            /\ thrown' = r.thrown
            /\ container' = r.container
            /\ UNCHANGED trimVars
            /\ UNCHANGED <<text, pattern, replacement, comparer, mode, ret_bool, ret_text,
                           split_it, yielded, target>>

Join ==
    \E clear_target \in BOOLEAN :
        LET r == join(target, container, pattern, clear_target)
        IN  /\ Len(r) <= MaxTarget
            /\ op' = "join"
            /\ clear' = clear_target
            /\ thrown' = "none"
            /\ target' = r
            /\ UNCHANGED trimVars
            /\ UNCHANGED <<text, pattern, replacement, comparer, mode, ret_bool, ret_text,
                           split_it, yielded, container>>

NextSplit == SplitToken \/ Join

SpecSplit == InitSplit /\ [][NextSplit]_vars

\* ------------------------------------------------------------ text objects
\* The three shapes a text comes in: a growable string object holding the units
\* data, a range object [begin, end) over the units data, and a pointer to a
\* raw buffer data whose text ends before the first 0.
StringObject(s) == [shape |-> "string", data |-> s, begin |-> 1, end |-> Len(s) + 1]
RangeObject(s, b, e) == [shape |-> "range", data |-> s, begin |-> b, end |-> e]
BufferObject(a) == [shape |-> "buffer", data |-> a, begin |-> 1, end |-> 0]

Shapes == {"string", "range", "buffer"}

\* string_length(p): the units before the terminating null, counted from p on.
RECURSIVE string_length(_, _)
string_length(a, p) == IF a[p] = 0 THEN 0 ELSE 1 + string_length(a, p + 1)

\* A terminated iterator: the storage it walks, its position, and either the
\* end position (endpos_terminated_string_iterator) or none
\* (null_terminated_string_iterator).  A reverse iterator keeps the base
\* position of std::reverse_iterator and refers to the unit before it.
make_const_terminated_iterator_forward(t) ==
    IF t.shape = "buffer"
    THEN [kind |-> "null_terminated", data |-> t.data, position |-> t.begin,
          end |-> 0, reverse |-> FALSE]
    ELSE [kind |-> "endpos", data |-> t.data, position |-> t.begin,
          end |-> t.end, reverse |-> FALSE]

\* The reverse iterator over a raw buffer that starts one unit too far back,
\* on the terminating null.
make_const_terminated_iterator_reverse_from_null(t) ==
    IF t.shape = "buffer"
    THEN [kind |-> "endpos", data |-> t.data,
          position |-> t.begin + string_length(t.data, t.begin) + 1,
          end |-> t.begin, reverse |-> TRUE]
    ELSE [kind |-> "endpos", data |-> t.data, position |-> t.end,
          end |-> t.begin, reverse |-> TRUE]

make_const_terminated_iterator_reverse(t) ==
    IF t.shape = "buffer"
    THEN [kind |-> "endpos", data |-> t.data,
          position |-> t.begin + string_length(t.data, t.begin),
          end |-> t.begin, reverse |-> TRUE]
    ELSE [kind |-> "endpos", data |-> t.data, position |-> t.end,
          end |-> t.begin, reverse |-> TRUE]

\* make_terminated_iterator_reverse(char_type* p_text)
make_terminated_iterator_reverse(t) ==
    [kind |-> "endpos", data |-> t.data,
     position |-> t.begin + string_length(t.data, t.begin),
     end |-> t.begin, reverse |-> TRUE]

\* is_end_position() that takes the end of the storage for the end of a
\* null-terminated text.
terminated_is_end_position_at_storage_end(itt) ==
    IF itt.kind = "null_terminated"
    THEN itt.position = Len(itt.data) + 1
    ELSE itt.position = itt.end

\* is_end_position() of either iterator class.
terminated_is_end_position(itt) ==
    IF itt.kind = "null_terminated"
    THEN itt.data[itt.position] = 0
    ELSE itt.position = itt.end

\* operator*() of either iterator class.
terminated_value(itt) ==
    IF itt.reverse THEN itt.data[itt.position - 1] ELSE itt.data[itt.position]

\* operator++() of either iterator class.
terminated_increment(itt) ==
    [itt EXCEPT !.position = IF itt.reverse THEN @ - 1 ELSE @ + 1]

\* get_end() of either iterator class.
terminated_get_end(itt) ==
    IF itt.kind = "null_terminated"
    THEN itt.position + string_length(itt.data, itt.position)
    ELSE itt.end

\* ------------------------------------------------------------ predicates
\* The unit that is white space and the unit the lambda of the tests looks for.
Space == 1
Letter == 2

\* The predicates the callers pass: utility::is_space and the lambda
\* [](char c) { return c == 'd'; }.
Predicates == {"is_space", "is_letter"}

is_something(pred, value) ==
    CASE pred = "is_space"  -> value = Space
      [] pred = "is_letter" -> value = Letter

\* ------------------------------------------------------------ trim
\* trim_iterator that passes one unit at most.
trim_iterator_one_unit(itt, pred) ==
    IF ~terminated_is_end_position(itt) /\ is_something(pred, terminated_value(itt))
    THEN terminated_increment(itt)
    ELSE itt

\* implementation::trim_iterator(itt, is_something)
RECURSIVE trim_iterator(_, _)
trim_iterator(itt, pred) ==
    IF ~terminated_is_end_position(itt) /\ is_something(pred, terminated_value(itt))
    THEN trim_iterator(terminated_increment(itt), pred)
    ELSE itt

\* text_type(first, last): a string holding the units of [first, last), or a
\* range over them.
construct(t, first, last) ==
    IF t.shape = "string"
    THEN StringObject(SubSeq(t.data, first, last - 1))
    ELSE RangeObject(t.data, first, last)

\* trim_copy whose end is only trimmed when the start is not.
trim_copy_end_only_without_start(t, pred, trim_start_enable_, trim_end_enable_) ==
    LET itt_start == make_const_terminated_iterator_forward(t)
        itt_text_start == IF trim_start_enable_ THEN trim_iterator(itt_start, pred)
                          ELSE itt_start
    IN  IF ~terminated_is_end_position(itt_text_start)
        THEN LET itt_end == make_const_terminated_iterator_reverse(t)
                 itt_text_end == IF trim_end_enable_ /\ ~trim_start_enable_
                                 THEN trim_iterator(itt_end, pred)
                                 ELSE itt_end
             IN  construct(t, itt_text_start.position, itt_text_end.position)
        ELSE construct(t, itt_text_start.position, terminated_get_end(itt_text_start))

\* trim_copy that returns the whole text when the leading units are all
\* trimmed.
trim_copy_whole_when_all_trimmed(t, pred, trim_start_enable_, trim_end_enable_) ==
    LET itt_start == make_const_terminated_iterator_forward(t)
        itt_text_start == IF trim_start_enable_ THEN trim_iterator(itt_start, pred)
                          ELSE itt_start
    IN  IF ~terminated_is_end_position(itt_text_start)
        THEN LET itt_end == make_const_terminated_iterator_reverse(t)
                 itt_text_end == IF trim_end_enable_ THEN trim_iterator(itt_end, pred)
                                 ELSE itt_end
             IN  construct(t, itt_text_start.position, itt_text_end.position)
        ELSE construct(t, itt_start.position, terminated_get_end(itt_text_start))

\* implementation::trim_copy(text, is_something, trim_start_enable,
\* trim_end_enable) for a string or a range object.
trim_copy(t, pred, trim_start_enable_, trim_end_enable_) ==
    LET itt_start == make_const_terminated_iterator_forward(t)
        itt_text_start == IF trim_start_enable_ THEN trim_iterator(itt_start, pred)
                          ELSE itt_start
    IN  IF ~terminated_is_end_position(itt_text_start)
        THEN LET itt_end == make_const_terminated_iterator_reverse(t)
                 itt_text_end == IF trim_end_enable_ THEN trim_iterator(itt_end, pred)
                                 ELSE itt_end
             IN  construct(t, itt_text_start.position, itt_text_end.position)
        ELSE construct(t, itt_text_start.position, terminated_get_end(itt_text_start))

\* The for loop of trim_in_place that copies [it, it_end) unit by unit to
\* it_target.
RECURSIVE copy_to_front(_, _, _, _)
copy_to_front(data, it, it_end, it_target) ==
    IF it # it_end
    THEN copy_to_front([data EXCEPT ![it_target] = data[it]], it + 1, it_end, it_target + 1)
    ELSE data

\* A block copy of n units from position src to position dst that starts with
\* the last unit and reads what it has already written.
RECURSIVE copy_backward(_, _, _, _)
copy_backward(data, dst, src, n) ==
    IF n = 0
    THEN data
    ELSE copy_backward([data EXCEPT ![dst + n - 1] = data[src + n - 1]], dst, src, n - 1)

\* memmove(dst, src, n): the units are read before any is written.
memmove(data, dst, src, n) ==
    [k \in DOMAIN data |->
        IF k \in dst..(dst + n - 1) THEN data[src + (k - dst)] ELSE data[k]]

\* text.resize(n) of a string that is not shorter than n.
resize(data, n) == SubSeq(data, 1, n)

\* implementation::trim_in_place for a string object.
trim_in_place_string(t, pred, trim_start_enable_, trim_end_enable_) ==
    LET itt_start == make_const_terminated_iterator_forward(t)
        itt_text_start == IF trim_start_enable_ THEN trim_iterator(itt_start, pred)
                          ELSE itt_start
    IN  IF ~terminated_is_end_position(itt_text_start)
        THEN LET itt_end == make_const_terminated_iterator_reverse(t)
                 itt_text_end == IF trim_end_enable_ THEN trim_iterator(itt_end, pred)
                                 ELSE itt_end
                 it_begin == itt_text_start.position
                 it_end == itt_text_end.position
             IN  IF it_begin # it_end
                 THEN LET moved == IF it_begin # t.begin
                                   THEN copy_to_front(t.data, it_begin, it_end, t.begin)
                                   ELSE t.data
                          clip == (it_end # t.end) \/ (it_begin # t.begin)
                      IN  StringObject(IF clip THEN resize(moved, it_end - it_begin)
                                       ELSE moved)
                 ELSE StringObject(<<>>)
        ELSE StringObject(<<>>)

\* implementation::trim_in_place for a range object.
trim_in_place_range(t, pred, trim_start_enable_, trim_end_enable_) ==
    trim_copy(t, pred, trim_start_enable_, trim_end_enable_)

\* implementation::trim_in_place for a raw buffer.
trim_in_place_buffer(t, pred, trim_start_enable_, trim_end_enable_) ==
    LET itt_start == make_const_terminated_iterator_forward(t)
        itt_text_start == IF trim_start_enable_ THEN trim_iterator(itt_start, pred)
                          ELSE itt_start
    IN  IF ~terminated_is_end_position(itt_text_start)
        THEN LET itt_end == make_terminated_iterator_reverse(t)
                 itt_text_end == IF trim_end_enable_ THEN trim_iterator(itt_end, pred)
                                 ELSE itt_end
                 it_begin == itt_text_start.position
                 it_end == itt_text_end.position
             IN  IF it_begin # it_end
                 THEN LET moved == IF it_begin # t.begin
                                   THEN memmove(t.data, t.begin, it_begin, it_end - it_begin)
                                   ELSE t.data
                          clip == (t.data[it_end] # 0) \/ (it_begin # t.begin)
                      IN  BufferObject(IF clip
                                       THEN [moved EXCEPT ![t.begin + (it_end - it_begin)] = 0]
                                       ELSE moved)
                 ELSE BufferObject([t.data EXCEPT ![t.begin] = 0])
        ELSE BufferObject([t.data EXCEPT ![t.begin] = 0])

\* implementation::trim_in_place, by the shape of its first argument.
trim_in_place(t, pred, trim_start_enable_, trim_end_enable_) ==
    CASE t.shape = "string" -> trim_in_place_string(t, pred, trim_start_enable_, trim_end_enable_)
      [] t.shape = "range"  -> trim_in_place_range(t, pred, trim_start_enable_, trim_end_enable_)
      [] t.shape = "buffer" -> trim_in_place_buffer(t, pred, trim_start_enable_, trim_end_enable_)

\* ------------------------------------------------------------ trimming
\* The ranges [b, e) over the text s.
RangesOver(s) ==
    {r \in [begin : 1..(Len(s) + 1), end : 1..(Len(s) + 1)] : r.begin <= r.end}

InitTrim ==
    /\ text \in Texts
    /\ predicate \in Predicates
    /\ converter = "to_lower_case_converter"
    /\ shape \in Shapes
    /\ buffer = (IF shape = "buffer" THEN Append(text, 0) ELSE <<0>>)
    /\ view \in (IF shape = "range" THEN RangesOver(text) ELSE {NullRange})
    /\ trim_start_enable = FALSE
    /\ trim_end_enable = FALSE
    /\ ret_range = NullRange
    /\ count = 0
    /\ pattern = <<>>
    /\ replacement = <<>>
    /\ comparer = "equals"
    /\ mode = "all"
    /\ op = "none"
    /\ thrown = "none"
    /\ ret_bool = FALSE
    /\ ret_text = <<>>
    /\ split_it = NoIterator
    /\ yielded = <<>>
    /\ container = <<>>
    /\ target = <<>>
    /\ clear = FALSE

\* The text object the caller passes to the trim calls.
TextObject ==
    CASE shape = "string" -> StringObject(text)
      [] shape = "range"  -> RangeObject(text, view.begin, view.end)
      [] shape = "buffer" -> BufferObject(buffer)

\* trim_copy, trim_start_copy, trim_end_copy of a string or a range object.
TrimCopy ==
    \E start_enable \in BOOLEAN, end_enable \in BOOLEAN :
        LET r == trim_copy(TextObject, predicate, start_enable, end_enable)
        IN  /\ shape \in {"string", "range"}
            /\ op' = "trim_copy"
            /\ thrown' = "none"
            /\ trim_start_enable' = start_enable
            /\ trim_end_enable' = end_enable
            /\ ret_text' = (IF shape = "string" THEN r.data ELSE ret_text)
            /\ ret_range' = (IF shape = "range" THEN [begin |-> r.begin, end |-> r.end]
                             ELSE ret_range)
            /\ UNCHANGED <<text, pattern, replacement, comparer, mode, ret_bool, splitVars,
                           shape, buffer, view, predicate, converter, count>>

\* trim_in_place, trim_start_in_place, trim_end_in_place.
TrimInPlace ==
    \E start_enable \in BOOLEAN, end_enable \in BOOLEAN :
        LET r == trim_in_place(TextObject, predicate, start_enable, end_enable)
        IN  /\ op' = "trim_in_place"
            /\ thrown' = "none"
            /\ trim_start_enable' = start_enable
            /\ trim_end_enable' = end_enable
            /\ text' = (IF shape = "string" THEN r.data ELSE text)
            /\ view' = (IF shape = "range" THEN [begin |-> r.begin, end |-> r.end] ELSE view)
            /\ buffer' = (IF shape = "buffer" THEN r.data ELSE buffer)
            /\ UNCHANGED <<pattern, replacement, comparer, mode, ret_bool, ret_text, splitVars,
                           shape, predicate, converter, ret_range, count>>

NextTrim == TrimCopy \/ TrimInPlace

SpecTrim == InitTrim /\ [][NextTrim]_vars

\* ------------------------------------------------------------ prefix_matches, full_match
\* The for loop of prefix_matches; the value is the pair of iterators the loop
\* is left with.
RECURSIVE prefix_matches_loop(_, _, _)
prefix_matches_loop(itt_text, itt_prefix, c) ==
    IF ~terminated_is_end_position(itt_text) /\ ~terminated_is_end_position(itt_prefix)
    THEN IF ~compare(c, terminated_value(itt_text), terminated_value(itt_prefix))
         THEN <<itt_text, itt_prefix>>
         ELSE prefix_matches_loop(terminated_increment(itt_text),
                                  terminated_increment(itt_prefix), c)
    ELSE <<itt_text, itt_prefix>>

\* prefix_matches that also succeeds when the text has been read to its end.
prefix_matches_text_read(itt_text, itt_prefix, c) ==
    LET l == prefix_matches_loop(itt_text, itt_prefix, c)
    IN  terminated_is_end_position(l[2]) \/ terminated_is_end_position(l[1])

prefix_matches(itt_text, itt_prefix, c) ==
    terminated_is_end_position(prefix_matches_loop(itt_text, itt_prefix, c)[2])

\* The for loop of full_match.
RECURSIVE full_match_loop(_, _, _)
full_match_loop(itt_text_lhs, itt_text_rhs, c) ==
    IF ~terminated_is_end_position(itt_text_lhs) /\ ~terminated_is_end_position(itt_text_rhs)
    THEN IF ~compare(c, terminated_value(itt_text_lhs), terminated_value(itt_text_rhs))
         THEN <<itt_text_lhs, itt_text_rhs>>
         ELSE full_match_loop(terminated_increment(itt_text_lhs),
                              terminated_increment(itt_text_rhs), c)
    ELSE <<itt_text_lhs, itt_text_rhs>>

\* full_match that only asks for the right-hand side to be read to its end.
full_match_rhs_read(itt_text_lhs, itt_text_rhs, c) ==
    terminated_is_end_position(full_match_loop(itt_text_lhs, itt_text_rhs, c)[2])

full_match(itt_text_lhs, itt_text_rhs, c) ==
    LET l == full_match_loop(itt_text_lhs, itt_text_rhs, c)
    IN  terminated_is_end_position(l[1]) /\ terminated_is_end_position(l[2])

\* ------------------------------------------------------------ starts_with, ends_with, equals
starts_with(t, prefix, c) ==
    prefix_matches(make_const_terminated_iterator_forward(t),
                   make_const_terminated_iterator_forward(prefix), c)

ends_with(t, ending, c) ==
    prefix_matches(make_const_terminated_iterator_reverse(t),
                   make_const_terminated_iterator_reverse(ending), c)

equals(text_lhs, text_rhs, c) ==
    full_match(make_const_terminated_iterator_forward(text_lhs),
               make_const_terminated_iterator_forward(text_rhs), c)

\* ------------------------------------------------------------ matching
InitMatch ==
    /\ text \in Texts
    /\ pattern \in Patterns
    /\ comparer \in Comparers
    /\ shape \in Shapes
    /\ buffer = (IF shape = "buffer" THEN Append(text, 0) ELSE <<0>>)
    /\ view \in (IF shape = "range" THEN RangesOver(text) ELSE {NullRange})
    /\ predicate = "is_space"
    /\ converter = "to_lower_case_converter"
    /\ trim_start_enable = FALSE
    /\ trim_end_enable = FALSE
    /\ ret_range = NullRange
    /\ count = 0
    /\ replacement = <<>>
    /\ mode = "all"
    /\ op = "none"
    /\ thrown = "none"
    /\ ret_bool = FALSE
    /\ ret_text = <<>>
    /\ split_it = NoIterator
    /\ yielded = <<>>
    /\ container = <<>>
    /\ target = <<>>
    /\ clear = FALSE

\* The second operand: a string, or a null-terminated literal when the text is
\* passed as a null-terminated buffer.
PatternObject ==
    IF shape = "buffer" THEN BufferObject(Append(pattern, 0)) ELSE StringObject(pattern)

StartsWith ==
    /\ op' = "starts_with"
    /\ thrown' = "none"
    /\ ret_bool' = starts_with(TextObject, PatternObject, comparer)
    /\ UNCHANGED trimVars
    /\ UNCHANGED <<text, pattern, replacement, comparer, mode, ret_text, splitVars>>

EndsWith ==
    /\ op' = "ends_with"
    /\ thrown' = "none"
    /\ ret_bool' = ends_with(TextObject, PatternObject, comparer)
    /\ UNCHANGED trimVars
    /\ UNCHANGED <<text, pattern, replacement, comparer, mode, ret_text, splitVars>>

Equals ==
    /\ op' = "equals"
    /\ thrown' = "none"
    /\ ret_bool' = equals(TextObject, PatternObject, comparer)
    /\ UNCHANGED trimVars
    /\ UNCHANGED <<text, pattern, replacement, comparer, mode, ret_text, splitVars>>

NextMatch == StartsWith \/ EndsWith \/ Equals

SpecMatch == InitMatch /\ [][NextMatch]_vars

\* ------------------------------------------------------------ character conversion
\* The units of the texts whose case matters: 'A', 'a' and a unit of the upper
\* half of the single-byte range (the capital A with diaeresis of Latin-1).
UpperA == 65
LowerA == 97
UpperADiaeresis == 196
CaseUnits == {UpperA, LowerA, UpperADiaeresis}
CaseTexts == SeqsUpTo(CaseUnits, MaxLen)
CasePatterns == SeqsUpTo(CaseUnits, MaxPat)

\* The converters the callers pass: utility::to_lower_case_converter,
\* utility::to_upper_case_converter, the lambda that returns 'a' for 'A' and the
\* lambda that returns the string "123" for 'A'.
Converters == {"to_lower_case_converter", "to_upper_case_converter", "lambda_a", "lambda_123"}

\* converter(value)
convert(conv, value) ==
    CASE conv = "to_lower_case_converter" -> tolower(value)
      [] conv = "to_upper_case_converter" -> toupper(value)
      [] conv = "lambda_a"   -> IF value = UpperA THEN LowerA ELSE value
      [] conv = "lambda_123" -> IF value = UpperA THEN <<49, 50, 51>> ELSE <<value>>

\* std::is_integral of what the converter returns.
is_integral(conv) == conv # "lambda_123"

\* make_terminated_iterator_forward(text)
make_terminated_iterator_forward(t) ==
    IF t.shape = "buffer"
    THEN [kind |-> "null_terminated", data |-> t.data, position |-> t.begin,
          end |-> 0, reverse |-> FALSE]
    ELSE [kind |-> "endpos", data |-> t.data, position |-> t.begin,
          end |-> t.end, reverse |-> FALSE]

\* The for loop of text_appender(text, text_to_append).
RECURSIVE text_appender_loop(_, _)
text_appender_loop(result, itt_text_to_append) ==
    IF ~terminated_is_end_position(itt_text_to_append)
    THEN text_appender_loop(Append(result, terminated_value(itt_text_to_append)),
                            terminated_increment(itt_text_to_append))
    ELSE result

\* text_appender that takes the first unit of what the converter returned.
text_appender_first_unit(result, conv, c) ==
    IF is_integral(conv) THEN Append(result, c) ELSE Append(result, c[1])

\* text_appender(text, c) and text_appender(text, text_to_append), by the type
\* of what the converter returned.
text_appender(result, conv, c) ==
    IF is_integral(conv)
    THEN Append(result, c)
    ELSE text_appender_loop(result, make_const_terminated_iterator_forward(StringObject(c)))

\* The for loop of implementation::character_convert_copy.
RECURSIVE character_convert_copy_loop(_, _, _)
character_convert_copy_loop(result, itt_text, conv) ==
    IF ~terminated_is_end_position(itt_text)
    THEN character_convert_copy_loop(
             text_appender(result, conv, convert(conv, terminated_value(itt_text))),
             terminated_increment(itt_text), conv)
    ELSE result

\* character_convert_copy(text, converter) of a string object; the value is the
\* content of the string returned.
character_convert_copy(t, conv) ==
    character_convert_copy_loop(<<>>, make_const_terminated_iterator_forward(t), conv)

\* The for loop of implementation::character_convert_in_place; the value is the
\* storage when the loop is left.
RECURSIVE character_convert_in_place_loop(_, _)
character_convert_in_place_loop(itt_text, conv) ==
    IF ~terminated_is_end_position(itt_text)
    THEN character_convert_in_place_loop(
             terminated_increment(
                 [itt_text EXCEPT !.data[itt_text.position]
                                      = convert(conv, terminated_value(itt_text))]),
             conv)
    ELSE itt_text.data

\* character_convert_in_place(text, converter) of a string object, a range
\* object or a raw buffer.
character_convert_in_place(t, conv) ==
    [t EXCEPT !.data = character_convert_in_place_loop(make_terminated_iterator_forward(t), conv)]

\* to_lower_copy(text)
to_lower_copy(t) == character_convert_copy(t, "to_lower_case_converter")

\* icontains(text, contained_string)
icontains(s, contained_string) == contains(s, contained_string, "equals_ignoring_case")

\* ------------------------------------------------------------ converting
InitCase ==
    /\ text \in CaseTexts
    /\ shape \in Shapes
    /\ pattern \in (IF shape = "string" THEN CasePatterns ELSE {<<>>})
    /\ buffer = (IF shape = "buffer" THEN Append(text, 0) ELSE <<0>>)
    /\ view \in (IF shape = "range" THEN RangesOver(text) ELSE {NullRange})
    /\ converter = "to_lower_case_converter"
    /\ predicate = "is_space"
    /\ trim_start_enable = FALSE
    /\ trim_end_enable = FALSE
    /\ ret_range = NullRange
    /\ count = 0
    /\ replacement = <<>>
    /\ comparer = "equals"
    /\ mode = "all"
    /\ op = "none"
    /\ thrown = "none"
    /\ ret_bool = FALSE
    /\ ret_text = <<>>
    /\ split_it = NoIterator
    /\ yielded = <<>>
    /\ container = <<>>
    /\ target = <<>>
    /\ clear = FALSE

IContains ==
    /\ shape = "string"
    /\ op' = "icontains"
    /\ thrown' = "none"
    /\ ret_bool' = icontains(text, pattern)
    /\ UNCHANGED trimVars
    /\ UNCHANGED <<text, pattern, replacement, comparer, mode, ret_text, splitVars>>

\* character_convert_copy, to_lower_copy, to_upper_copy of a string object.
CharacterConvertCopy ==
    \E conv \in Converters :
        /\ shape = "string"
        /\ op' = "character_convert_copy"
        /\ thrown' = "none"
        /\ converter' = conv
        /\ ret_text' = character_convert_copy(TextObject, conv)
        /\ UNCHANGED <<text, pattern, replacement, comparer, mode, ret_bool, splitVars,
                       shape, buffer, view, predicate, trim_start_enable, trim_end_enable,
                       ret_range, count>>

\* character_convert_in_place, to_lower_in_place, to_upper_in_place.
CharacterConvertInPlace ==
    \E conv \in {cv \in Converters : is_integral(cv)} :
        LET r == character_convert_in_place(TextObject, conv)
        IN  /\ op' = "character_convert_in_place"
            /\ thrown' = "none"
            /\ converter' = conv
            /\ text' = (IF shape \in {"string", "range"} THEN r.data ELSE text)
            /\ buffer' = (IF shape = "buffer" THEN r.data ELSE buffer)
            /\ UNCHANGED <<pattern, replacement, comparer, mode, ret_bool, ret_text, splitVars,
                           shape, view, predicate, trim_start_enable, trim_end_enable,
                           ret_range, count>>

NextCase == IContains \/ CharacterConvertCopy \/ CharacterConvertInPlace

SpecCase == InitCase /\ [][NextCase]_vars

\* ------------------------------------------------------------ search and split over the text shapes
\* The search and the split iterators as the templates are instantiated for
\* the terminated iterators of a string object, a range object and a raw
\* buffer.  A split iterator holds terminated iterators in itt_text and
\* current_separator and positions in current_range.

\* The inner for-loop of find_forward_optimized: the two compare iterators when
\* the loop is left.
RECURSIVE find_compare_loop_itt(_, _, _)
find_compare_loop_itt(itt_text_compare_loop, itt_contained_string_compare_loop, c) ==
    IF /\ ~terminated_is_end_position(itt_text_compare_loop)
       /\ ~terminated_is_end_position(itt_contained_string_compare_loop)
       /\ compare(c, terminated_value(itt_text_compare_loop),
                     terminated_value(itt_contained_string_compare_loop))
    THEN find_compare_loop_itt(terminated_increment(itt_text_compare_loop),
                               terminated_increment(itt_contained_string_compare_loop), c)
    ELSE <<itt_text_compare_loop, itt_contained_string_compare_loop>>

\* The outer for-loop of find_forward_optimized: <<itt_text,
\* itt_text_compare_loop, itt_contained_string_compare_loop>> when it is left.
RECURSIVE find_outer_loop_itt(_, _, _)
find_outer_loop_itt(itt_text, itt_contained_string, c) ==
    IF terminated_is_end_position(itt_text)
    THEN <<itt_text, itt_text, itt_contained_string>>
    ELSE LET r == find_compare_loop_itt(itt_text, itt_contained_string, c)
         IN  IF terminated_is_end_position(r[2]) \/ terminated_is_end_position(r[1])
             THEN <<itt_text, r[1], r[2]>>
             ELSE find_outer_loop_itt(terminated_increment(itt_text), itt_contained_string, c)

\* find_forward_optimized that returns the units compared last, whether the
\* text looked for was read to its end or not.
find_forward_optimized_itt_compared_last(itt_text, itt_contained_string, c) ==
    LET l == find_outer_loop_itt(itt_text, itt_contained_string, c)
    IN  [begin |-> l[1], end |-> l[2]]

\* implementation::find_forward_optimized(itt_text, itt_contained_string, compare)
find_forward_optimized_itt(itt_text, itt_contained_string, c) ==
    LET l == find_outer_loop_itt(itt_text, itt_contained_string, c)
    IN  IF terminated_is_end_position(l[3])
        THEN [begin |-> l[1], end |-> l[2]]
        ELSE [begin |-> l[2], end |-> l[2]]

\* contains(text, contained_string, comparer)
contains_text(t, contained_string, c) ==
    LET itt_contained_string == make_const_terminated_iterator_forward(contained_string)
    IN  terminated_is_end_position(itt_contained_string)
        \/ ~terminated_is_end_position(
               find_forward_optimized_itt(make_const_terminated_iterator_forward(t),
                                          make_const_terminated_iterator_forward(contained_string),
                                          c).begin)

\* split_token_iterator::advance(): one pass of the while loop per recursion.
RECURSIVE token_advance_itt(_, _, _)
token_advance_itt(it, itt_separator, c) ==
    IF it.is_end
    THEN it
    ELSE LET at_end == terminated_is_end_position(it.current_separator.begin)
             start  == it.current_separator.end
             found  == find_forward_optimized_itt(start, itt_separator, c)
             next   == [it EXCEPT !.is_end = at_end,
                                  !.itt_text = start,
                                  !.current_separator = found,
                                  !.current_range = [begin |-> start.position,
                                                     end |-> found.begin.position]]
         IN  IF it.used_mode = "skip_empty" /\ found.begin.position = start.position
             THEN token_advance_itt(next, itt_separator, c)
             ELSE next

\* The constructor of split_token_iterator: [thrown, it].
split_token_iterator_text(t, separator_token, m, c) ==
    LET itt_text == make_terminated_iterator_forward(t)
        itt_separator == make_const_terminated_iterator_forward(separator_token)
        members == [kind |-> "token",
                    itt_text |-> itt_text,
                    current_separator |-> [begin |-> itt_text, end |-> itt_text],
                    current_range |-> NullRange,
                    used_mode |-> m,
                    is_end |-> FALSE]
    IN  IF terminated_is_end_position(itt_separator)
        THEN [thrown |-> "invalid_argument", it |-> NoIterator]
        ELSE IF ~terminated_is_end_position(itt_text) \/ m = "skip_empty"
             THEN [thrown |-> "none", it |-> token_advance_itt(members, itt_separator, c)]
             ELSE [thrown |-> "none",
                   it |-> [members EXCEPT !.current_range = [begin |-> itt_text.position,
                                                             end |-> itt_text.position]]]

\* The while loop of split_token: emplace_back the current range, ++split_it.
RECURSIVE split_token_loop_itt(_, _, _, _)
split_token_loop_itt(cont, it, itt_separator, c) ==
    IF it.is_end
    THEN cont
    ELSE split_token_loop_itt(
             Append(cont, SubSeq(it.itt_text.data, it.current_range.begin,
                                 it.current_range.end - 1)),
             token_advance_itt(it, itt_separator, c), itt_separator, c)

\* split_token(container, text_to_iterate_over, separator_token, mode,
\* equals_comparer, clear_container): [thrown, container].
split_token_text(cont, t, separator_token, m, c, clear_container) ==
    LET cleared == IF clear_container THEN <<>> ELSE cont
        split_it_ctor == split_token_iterator_text(t, separator_token, m, c)
    IN  IF split_it_ctor.thrown # "none"
        THEN [thrown |-> split_it_ctor.thrown, container |-> cleared]
        ELSE [thrown |-> "none",
              container |-> split_token_loop_itt(
                                cleared, split_it_ctor.it,
                                make_const_terminated_iterator_forward(separator_token), c)]

\* utility::is_any_of::operator(): the for loop from local_itt on.
RECURSIVE is_any_of_itt(_, _)
is_any_of_itt(local_itt, value) ==
    IF terminated_is_end_position(local_itt)
    THEN FALSE
    ELSE IF terminated_value(local_itt) = value
         THEN TRUE
         ELSE is_any_of_itt(terminated_increment(local_itt), value)

\* The for-loop of split_iterator::advance() that finds the next separator.
RECURSIVE find_separator_loop_itt(_, _)
find_separator_loop_itt(current_separator, itt_chars) ==
    IF /\ ~terminated_is_end_position(current_separator)
       /\ ~is_any_of_itt(itt_chars, terminated_value(current_separator))
    THEN find_separator_loop_itt(terminated_increment(current_separator), itt_chars)
    ELSE current_separator

\* split_iterator::advance(): one pass of the while loop per recursion.
RECURSIVE split_advance_itt(_, _)
split_advance_itt(it, itt_chars) ==
    IF it.is_end
    THEN it
    ELSE LET at_end == terminated_is_end_position(it.current_separator)
             start  == IF ~at_end /\ ~it.is_start
                       THEN terminated_increment(it.current_separator)
                       ELSE it.current_separator
             found  == find_separator_loop_itt(start, itt_chars)
             next   == [it EXCEPT !.is_end = at_end,
                                  !.is_start = FALSE,
                                  !.itt_text = start,
                                  !.current_separator = found,
                                  !.current_range = [begin |-> start.position,
                                                     end |-> found.position]]
         IN  IF it.used_mode = "skip_empty" /\ found.position = start.position
             THEN split_advance_itt(next, itt_chars)
             ELSE next

\* The constructor of split_iterator with an is_any_of predicate.
split_iterator_text(t, separator_characters, m) ==
    LET itt_text == make_terminated_iterator_forward(t)
        itt_chars == make_const_terminated_iterator_forward(separator_characters)
        members == [kind |-> "chars",
                    itt_text |-> itt_text,
                    current_separator |-> itt_text,
                    current_range |-> NullRange,
                    used_mode |-> m,
                    is_start |-> TRUE,
                    is_end |-> FALSE]
    IN  IF ~terminated_is_end_position(itt_text) \/ m = "skip_empty"
        THEN split_advance_itt(members, itt_chars)
        ELSE [members EXCEPT !.current_range = [begin |-> itt_text.position,
                                                end |-> itt_text.position]]

\* The while loop of split: emplace_back the current range, ++split_it.
RECURSIVE split_loop_itt(_, _, _)
split_loop_itt(cont, it, itt_chars) ==
    IF it.is_end
    THEN cont
    ELSE split_loop_itt(
             Append(cont, SubSeq(it.itt_text.data, it.current_range.begin,
                                 it.current_range.end - 1)),
             split_advance_itt(it, itt_chars), itt_chars)

\* split(container, string_to_split, is_any_of(separator_characters), mode,
\* clear_container): the container.
split_text(cont, t, separator_characters, m, clear_container) ==
    split_loop_itt(IF clear_container THEN <<>> ELSE cont,
                   split_iterator_text(t, separator_characters, m),
                   make_const_terminated_iterator_forward(separator_characters))

\* ------------------------------------------------------------ the shapes of the operands
\* The unit that lies behind the terminating null of a raw buffer.
BehindTerminator == 2

\* The range over the whole text s and the ranges that leave out its first or
\* its last unit.
ViewsOver(s) ==
    {r \in RangesOver(s) : r.begin \in {1, 2} /\ r.end \in {Len(s), Len(s) + 1}}

InitShape ==
    /\ text \in Texts
    /\ pattern \in Patterns
    /\ comparer \in Comparers
    /\ mode \in SplitModes
    /\ shape \in Shapes
    /\ buffer = (IF shape = "buffer" THEN Append(Append(text, 0), BehindTerminator) ELSE <<0>>)
    /\ view \in (IF shape = "range" THEN ViewsOver(text) ELSE {NullRange})
    /\ predicate = "is_space"
    /\ converter = "to_lower_case_converter"
    /\ trim_start_enable = FALSE
    /\ trim_end_enable = FALSE
    /\ ret_range = NullRange
    /\ count = 0
    /\ replacement = <<>>
    /\ op = "none"
    /\ thrown = "none"
    /\ ret_bool = FALSE
    /\ ret_text = <<>>
    /\ split_it = NoIterator
    /\ yielded = <<>>
    /\ container = <<>>
    /\ target = <<>>
    /\ clear = FALSE

\* The second operand as a string object or as a null-terminated literal.
PatternObjects ==
    {StringObject(pattern), BufferObject(Append(Append(pattern, 0), BehindTerminator))}

ContainsText ==
    \E contained_string \in PatternObjects :
        /\ op' = "contains"
        /\ thrown' = "none"
        /\ ret_bool' = contains_text(TextObject, contained_string, comparer)
        /\ UNCHANGED trimVars
        /\ UNCHANGED <<text, pattern, replacement, comparer, mode, ret_text, splitVars>>

SplitTokenText ==
    \E separator_token \in PatternObjects :
        LET r == split_token_text(container, TextObject, separator_token, mode, comparer, TRUE)
        IN  /\ op' = "split_token"
            /\ clear' = TRUE
            /\ thrown' = r.thrown
            /\ container' = r.container
            /\ UNCHANGED trimVars
            /\ UNCHANGED <<text, pattern, replacement, comparer, mode, ret_bool, ret_text,
                           split_it, yielded, target>>

SplitText ==
    \E separator_characters \in PatternObjects :
        /\ op' = "split"
        /\ clear' = TRUE
        /\ thrown' = "none"
        /\ container' = split_text(container, TextObject, separator_characters, mode, TRUE)
        /\ UNCHANGED trimVars
        /\ UNCHANGED <<text, pattern, replacement, comparer, mode, ret_bool, ret_text,
                       split_it, yielded, target>>

NextShape ==
    \/ ContainsText
    \/ StartsWith
    \/ EndsWith
    \/ Equals
    \/ SplitTokenText
    \/ SplitText

SpecShape == InitShape /\ [][NextShape]_vars

\* ------------------------------------------------------------ the comparer's operands
\* The replacement texts of the comparer calls: a shorter and a longer one.
ComparerReplacements == {<<>>, <<1, 1>>}

InitComparer ==
    /\ text \in Texts
    /\ pattern \in Patterns
    /\ replacement \in ComparerReplacements
    /\ comparer \in Comparers
    /\ mode \in SplitModes
    /\ op = "none"
    /\ thrown = "none"
    /\ ret_bool = FALSE
    /\ ret_text = <<>>
    /\ split_it = NoIterator
    /\ yielded = <<>>
    /\ container = <<>>
    /\ target = <<>>
    /\ clear = FALSE
    /\ InitTrimVars

NextComparer ==
    \/ Contains
    \/ StartsWith
    \/ EndsWith
    \/ Equals
    \/ ReplaceAllCopy
    \/ ReplaceAllInPlace
    \/ SplitTokenText

SpecComparer == InitComparer /\ [][NextComparer]_vars

\* ------------------------------------------------------------ finding
InitFind ==
    /\ text \in Texts
    /\ pattern \in Patterns
    /\ comparer \in Comparers
    /\ shape \in Shapes
    /\ buffer = (IF shape = "buffer" THEN Append(Append(text, 0), BehindTerminator) ELSE <<0>>)
    /\ view \in (IF shape = "range" THEN RangesOver(text) ELSE {NullRange})
    /\ predicate = "is_space"
    /\ converter = "to_lower_case_converter"
    /\ trim_start_enable = FALSE
    /\ trim_end_enable = FALSE
    /\ ret_range = NullRange
    /\ count = 0
    /\ replacement = <<>>
    /\ mode = "all"
    /\ op = "none"
    /\ thrown = "none"
    /\ ret_bool = FALSE
    /\ ret_text = <<>>
    /\ split_it = NoIterator
    /\ yielded = <<>>
    /\ container = <<>>
    /\ target = <<>>
    /\ clear = FALSE

\* find_forward_optimized as contains, replace_all_in_place_forward and the
\* token iterator call it: with a terminated iterator at the start of the text
\* and one at the start of the text looked for.
FindForwardOptimized ==
    \E contained_string \in PatternObjects :
        LET r == find_forward_optimized_itt(
                     make_const_terminated_iterator_forward(TextObject),
                     make_const_terminated_iterator_forward(contained_string), comparer)
        IN  /\ op' = "find_forward_optimized"
            /\ thrown' = "none"
            /\ ret_range' = [begin |-> r.begin.position, end |-> r.end.position]
            /\ ret_bool' = ~terminated_is_end_position(r.begin)
            /\ UNCHANGED <<text, pattern, replacement, comparer, mode, ret_text, splitVars,
                           shape, buffer, view, predicate, converter,
                           trim_start_enable, trim_end_enable, count>>

NextFind == FindForwardOptimized

SpecFind == InitFind /\ [][NextFind]_vars

\* ================================================================ properties
\* The pattern p matches the text s at position i under comparer c: the units
\* s[i], ..., s[i + Len(p) - 1] exist and pair up with the units of p.
MatchesAt(s, i, p, c) ==
    /\ i + Len(p) - 1 <= Len(s)
    /\ \A k \in 1..Len(p) : compare(c, s[i + k - 1], p[k])

Occurs(s, p, c) == \E i \in 1..(Len(s) + 1) : MatchesAt(s, i, p, c)

\* One left-to-right scan of s from position i: where p matches, r is emitted
\* and the scan resumes after the matched units; elsewhere one unit is emitted.
RECURSIVE ScanReplace(_, _, _, _, _)
ScanReplace(s, i, p, r, c) ==
    IF i > Len(s) THEN <<>>
    ELSE IF MatchesAt(s, i, p, c)
         THEN r \o ScanReplace(s, i + Len(p), p, r, c)
         ELSE <<s[i]>> \o ScanReplace(s, i + 1, p, r, c)

\* C1: contains(T, P, c) is true iff P is empty or P matches T at some index
\* under c; an empty P is contained in every T, the empty T included.
C1_ContainsIffOccurs ==
    op = "contains" =>
        /\ ret_bool = (pattern = <<>> \/ Occurs(text, pattern, comparer))
        /\ (pattern = <<>> => ret_bool)

C1_Witness ==
    /\ op = "contains"
    /\ ret_bool
    /\ Len(pattern) = 2
    /\ ~MatchesAt(text, 1, pattern, comparer)

\* C2: for a non-empty P, replace_all_copy(T, P, R, c) is the output of one
\* left-to-right scan of T: matches are leftmost and non-overlapping and the
\* emitted replacement is never examined again.
C2_CopyIsOneScan ==
    (op = "replace_all_copy" /\ pattern # <<>>) =>
        /\ thrown = "none"
        /\ ret_text = ScanReplace(text, 1, pattern, replacement, comparer)

\* Two adjacent matches whose replacement itself contains the pattern.
C2_Witness ==
    /\ op = "replace_all_copy"
    /\ thrown = "none"
    /\ Len(pattern) = 2
    /\ MatchesAt(text, 1, pattern, comparer)
    /\ MatchesAt(text, 2, pattern, comparer)
    /\ MatchesAt(text, 3, pattern, comparer)
    /\ Occurs(replacement, pattern, comparer)
    /\ ret_text = replacement \o replacement

\* C3: for a non-empty P, the content of T after replace_all_in_place(T, P, R)
\* is replace_all_copy(T0, P, R) for the content T0 of T before the call.
C3_InPlaceEqualsCopy ==
    [][(op' = "replace_all_in_place" /\ thrown' = "none")
        => text' = replace_all_copy(text, pattern, replacement, comparer).value]_vars

\* The in-place call has replaced at least two matches and the text has grown.
C3_Witness ==
    /\ op = "replace_all_in_place"
    /\ thrown = "none"
    /\ Len(text) = MaxLen + MaxGrow

\* C4: with an empty pattern replace_all_copy and replace_all_in_place leave
\* with invalid_argument for every T and R, and T keeps its content.
C4_EmptyPatternThrows ==
    [][(op' \in {"replace_all_copy", "replace_all_in_place"} /\ pattern = <<>>)
        => (thrown' = "invalid_argument" /\ text' = text)]_vars

C4_Witness ==
    /\ op = "replace_all_in_place"
    /\ thrown = "invalid_argument"
    /\ pattern = <<>>
    /\ text # <<>>
    /\ replacement # <<>>

\* The ranges the loop "while (!it.is_end_position()) { use *it; ++it; }" sees
\* from the iterator state it on.
RECURSIVE SectionsFrom(_, _, _, _)
SectionsFrom(it, s, sep, c) ==
    IF it.is_end
    THEN <<>>
    ELSE <<it.current_range>> \o SectionsFrom(increment(it, s, sep, c), s, sep, c)

\* The iterator of the given kind as constructed over the text in mode m.
Constructed(kind, m) ==
    IF kind = "token"
    THEN split_token_iterator(text, pattern, m, comparer).it
    ELSE split_iterator(text, pattern, m).it

IsNonEmptyRange(r) == r.begin # r.end

\* The empty range at the end of the text.
EndRange == [begin |-> Len(text) + 1, end |-> Len(text) + 1]

\* C5: for a non-empty SEP, mode all and the exact-equality comparer,
\* join(split_token(T, SEP), SEP) is T.
C5_SplitJoinRoundTrip ==
    ( /\ op = "join"
      /\ clear
      /\ mode = "all"
      /\ comparer = "equals"
      /\ pattern # <<>>
      /\ container = split_token(<<>>, text, pattern, mode, comparer, TRUE).container )
    => target = text

\* The joined container has three sections, one of them empty.
C5_Witness ==
    /\ op = "join"
    /\ clear
    /\ mode = "all"
    /\ comparer = "equals"
    /\ Len(pattern) = 2
    /\ container = split_token(<<>>, text, pattern, mode, comparer, TRUE).container
    /\ Len(container) = 3
    /\ \E k \in 1..Len(container) : container[k] = <<>>

\* C6: what an iterator in mode skip_empty yields is what the iterator in mode
\* all yields over the same text and separator without the zero-length
\* sections, in the same order; while it is not at end its current section is
\* not empty.
C6_SkipEmptyIsAllWithoutEmpty ==
    (split_it # NoIterator /\ split_it.used_mode = "skip_empty") =>
        LET expected == SelectSeq(
                SectionsFrom(Constructed(split_it.kind, "all"), text, pattern, comparer),
                IsNonEmptyRange)
        IN  /\ Len(yielded) <= Len(expected)
            /\ yielded = SubSeq(expected, 1, Len(yielded))
            /\ split_it.is_end => yielded = expected
            /\ ~split_it.is_end =>
                  /\ IsNonEmptyRange(split_it.current_range)
                  /\ yielded # <<>>
                  /\ yielded[Len(yielded)] = split_it.current_range

\* A finished skip_empty iteration with two sections, at least one empty
\* section having been skipped.
C6_Witness ==
    /\ split_it # NoIterator
    /\ split_it.kind = "token"
    /\ split_it.used_mode = "skip_empty"
    /\ split_it.is_end
    /\ Len(yielded) = 2
    /\ Len(SectionsFrom(Constructed("token", "all"), text, pattern, comparer)) > 2

\* The text ends with units that match the separator: the token matches at the
\* last Len(token) units, or the last unit is a separator character.
EndsWithSeparatorOccurrence(kind) ==
    IF kind = "token"
    THEN /\ Len(text) >= Len(pattern)
         /\ MatchesAt(text, Len(text) - Len(pattern) + 1, pattern, comparer)
    ELSE /\ text # <<>>
         /\ is_any_of(pattern, text[Len(text)])

\* Scanning s from i for leftmost, non-overlapping matches of p, some match
\* ends at the end of s.
RECURSIVE ScanMatchEndsAtEnd(_, _, _, _)
ScanMatchEndsAtEnd(s, i, p, c) ==
    IF i > Len(s) THEN FALSE
    ELSE IF MatchesAt(s, i, p, c)
         THEN (i + Len(p) = Len(s) + 1) \/ ScanMatchEndsAtEnd(s, i + Len(p), p, c)
         ELSE ScanMatchEndsAtEnd(s, i + 1, p, c)

\* The text ends at the end of a separator the iteration uses.
EndsWithUsedSeparator(kind) ==
    IF kind = "token"
    THEN ScanMatchEndsAtEnd(text, 1, pattern, comparer)
    ELSE /\ text # <<>>
         /\ is_any_of(pattern, text[Len(text)])

\* The empty section at the end of the text is yielded once, as the last
\* section, and the step after it is terminal.
TrailingEmptySection ==
    /\ Cardinality({k \in 1..Len(yielded) : yielded[k] = EndRange}) <= 1
    /\ split_it.is_end => (yielded # <<>> /\ yielded[Len(yielded)] = EndRange)
    /\ (~split_it.is_end /\ split_it.current_range = EndRange)
          => increment(split_it, text, pattern, comparer).is_end

\* C7 as stated: in mode all, when the text ends exactly at the end of a
\* separator occurrence, one zero-length section is yielded after it as the
\* final section and the next step is terminal.
C7_TrailingEmptyAfterAnyOccurrence ==
    ( /\ split_it # NoIterator
      /\ split_it.used_mode = "all"
      /\ EndsWithSeparatorOccurrence(split_it.kind) )
    => TrailingEmptySection

\* C7 (amended): in mode all, when the last separator match of the
\* left-to-right scan (leftmost, non-overlapping matches) ends at the end of
\* the text - in character mode, when the last unit is a separator - one
\* zero-length section is yielded after it as the final section and the next
\* step is terminal.
C7_TrailingEmptyAfterUsedSeparator ==
    ( /\ split_it # NoIterator
      /\ split_it.used_mode = "all"
      /\ EndsWithUsedSeparator(split_it.kind) )
    => TrailingEmptySection

C7_Witness ==
    /\ split_it # NoIterator
    /\ split_it.kind = "token"
    /\ split_it.used_mode = "all"
    /\ Len(pattern) = 2
    /\ EndsWithUsedSeparator("token")
    /\ split_it.is_end
    /\ Len(yielded) = 2
    /\ yielded[2] = EndRange
    /\ IsNonEmptyRange(yielded[1])

\* C8: over an empty text an iterator in mode all yields exactly one section,
\* the empty one: it is not at end when constructed and the first step makes
\* it terminal; in mode skip_empty it is at end when constructed.
C8_EmptySource ==
    (split_it # NoIterator /\ text = <<>>) =>
        IF split_it.used_mode = "all"
        THEN /\ yielded = <<[begin |-> 1, end |-> 1]>>
             /\ op # "operator++" => ~split_it.is_end
             /\ op = "operator++" => split_it.is_end
        ELSE /\ split_it.is_end
             /\ yielded = <<>>

C8_Witness ==
    /\ split_it # NoIterator
    /\ split_it.kind = "token"
    /\ split_it.used_mode = "all"
    /\ text = <<>>
    /\ op = "operator++"
    /\ split_it.is_end
    /\ Len(yielded) = 1

\* C9: constructing a token-mode iterator with an empty separator leaves with
\* invalid_argument for every text and mode; no iterator exists and no section
\* has been computed.
C9_EmptySeparatorThrows ==
    (op = "make_split_token_iterator" /\ pattern = <<>>) =>
        /\ thrown = "invalid_argument"
        /\ split_it = NoIterator
        /\ yielded = <<>>

C9_Witness ==
    /\ op = "make_split_token_iterator"
    /\ pattern = <<>>
    /\ thrown = "invalid_argument"
    /\ text # <<>>
    /\ mode = "all"

\* C10: when split_token(container, text, separator, ...) leaves with
\* invalid_argument, the container holds the elements it held before the call.
C10_FailedSplitKeepsContainer ==
    [][(op' = "split_token" /\ thrown' = "invalid_argument")
        => container' = container]_vars

\* ---------------------------------------------------------------- trim
\* The text a text object stands for.
Content(t) ==
    CASE t.shape = "string" -> t.data
      [] t.shape = "range"  -> SubSeq(t.data, t.begin, t.end - 1)
      [] t.shape = "buffer" ->
             SubSeq(t.data, t.begin, t.begin + string_length(t.data, t.begin) - 1)

\* The indexes of the units of s the predicate does not hold for.
Kept(s, pred) == {k \in 1..Len(s) : ~is_something(pred, s[k])}

Minimum(S) == CHOOSE x \in S : \A y \in S : x <= y
Maximum(S) == CHOOSE x \in S : \A y \in S : x >= y

\* s[b, e): b is the first kept index when the start is trimmed, else the
\* first index; e is one past the last kept index when the end is trimmed, else
\* one past the last index; empty when a side is trimmed and no unit is kept.
Trimmed(s, pred, start_enable, end_enable) ==
    LET kept == Kept(s, pred)
    IN  IF kept = {}
        THEN IF start_enable \/ end_enable THEN <<>> ELSE s
        ELSE SubSeq(s, IF start_enable THEN Minimum(kept) ELSE 1,
                       IF end_enable THEN Maximum(kept) ELSE Len(s))

\* The object the last trim_copy call returned.
ReturnedObject ==
    IF shape = "string"
    THEN StringObject(ret_text)
    ELSE RangeObject(text, ret_range.begin, ret_range.end)

\* C11: trim_copy(T, pred, trim_start, trim_end) is T[b, e), b the index of
\* the first unit not satisfying pred if trim_start is set (else the start), e
\* one past the last such unit if trim_end is set (else the end); it is empty
\* when a flag is set and every unit satisfies pred; no unit between the first
\* and the last surviving unit is removed.  A trimmed range stays inside the
\* range it was made from.
C11_TrimCopyIsSubSequence ==
    op = "trim_copy" =>
        /\ Content(ReturnedObject)
              = Trimmed(Content(TextObject), predicate, trim_start_enable, trim_end_enable)
        /\ shape = "range" =>
              /\ view.begin <= ret_range.begin
              /\ ret_range.begin <= ret_range.end
              /\ ret_range.end <= view.end

\* Both ends are to be trimmed: the leading unit is gone, a unit satisfying the
\* predicate survives in the middle.
C11_Witness ==
    /\ op = "trim_copy"
    /\ shape = "string"
    /\ trim_start_enable
    /\ trim_end_enable
    /\ Len(text) = 4
    /\ is_something(predicate, text[1])
    /\ is_something(predicate, text[3])
    /\ ret_text = SubSeq(text, 2, 4)

\* C12: for a string object, a range object and a raw buffer, for every
\* content, predicate and flag pair, the content after trim_in_place is
\* trim_copy of the content before the call; the raw buffer keeps its size and
\* the storage under a range is not written.
C12_TrimInPlaceEqualsCopy ==
    [][op' = "trim_in_place" =>
        /\ Content(TextObject)'
              = Content(trim_copy(StringObject(Content(TextObject)), predicate,
                                  trim_start_enable', trim_end_enable'))
        /\ Len(buffer') = Len(buffer)
        /\ shape = "range" => text' = text]_vars

\* Three surviving units of a raw buffer have been moved one unit to the front.
C12_Witness ==
    /\ op = "trim_in_place"
    /\ shape = "buffer"
    /\ trim_start_enable
    /\ Len(text) = 4
    /\ is_something(predicate, text[1])
    /\ ~is_something(predicate, text[2])
    /\ is_something(predicate, text[3])
    /\ ~is_something(predicate, text[4])
    /\ Content(TextObject) = SubSeq(text, 2, 4)
    /\ buffer[4] = 0

\* C13: for the white space predicate trim_copy(T) is
\* trim_end_copy(trim_start_copy(T)).
C13_TrimIsStartThenEnd ==
    (op = "trim_copy" /\ predicate = "is_space" /\ trim_start_enable /\ trim_end_enable) =>
        Content(ReturnedObject)
            = Content(trim_copy(trim_copy(TextObject, "is_space", TRUE, FALSE),
                                "is_space", FALSE, TRUE))

\* White space at both ends has been trimmed.
C13_Witness ==
    /\ op = "trim_copy"
    /\ predicate = "is_space"
    /\ shape = "string"
    /\ trim_start_enable
    /\ trim_end_enable
    /\ Len(text) = 4
    /\ text[1] = Space
    /\ text[4] = Space
    /\ Len(ret_text) = 1

\* Trimming what trim_copy returned, with the same predicate and flags, returns
\* the same text.
TrimCopyFixedPoint ==
    op = "trim_copy" =>
        Content(trim_copy(ReturnedObject, predicate, trim_start_enable, trim_end_enable))
            = Content(ReturnedObject)

\* C14: trim_copy(trim_copy(T)) is trim_copy(T), and trim_in_place directly
\* after trim_in_place with the same predicate and flags changes nothing.
C14_TrimIsIdempotent ==
    [][/\ TrimCopyFixedPoint'
       /\ ( /\ op = "trim_in_place"
            /\ op' = "trim_in_place"
            /\ trim_start_enable' = trim_start_enable
            /\ trim_end_enable' = trim_end_enable )
          => (text' = text /\ view' = view /\ buffer' = buffer)]_vars

\* A raw buffer that has been trimmed in place at both ends; its two surviving
\* units are what a further call works on.
C14_Witness ==
    /\ op = "trim_in_place"
    /\ shape = "buffer"
    /\ trim_start_enable
    /\ trim_end_enable
    /\ Len(text) = 4
    /\ is_something(predicate, text[1])
    /\ is_something(predicate, text[4])
    /\ Content(TextObject) = SubSeq(text, 2, 3)
    /\ trim_in_place(TextObject, predicate, TRUE, TRUE).data = buffer

\* ---------------------------------------------------------------- starts_with, ends_with, equals
\* The units of s in reverse order.
Reverse(s) == [k \in 1..Len(s) |-> s[Len(s) + 1 - k]]

\* The first Len(p) units of s exist and pair up with the units of p.
IsPrefix(s, p, c) ==
    /\ Len(p) <= Len(s)
    /\ \A k \in 1..Len(p) : compare(c, s[k], p[k])

\* The last Len(p) units of s exist and pair up with the units of p.
IsSuffix(s, p, c) ==
    /\ Len(p) <= Len(s)
    /\ \A k \in 1..Len(p) : compare(c, s[Len(s) - Len(p) + k], p[k])

\* C15: starts_with(T, P, c) is true iff len(P) <= len(T) and c(T[k], P[k])
\* for every k < len(P); an empty P is a prefix of every T and a P longer than
\* T is never one.
C15_StartsWithIffPrefix ==
    op = "starts_with" =>
        /\ ret_bool = IsPrefix(Content(TextObject), pattern, comparer)
        /\ pattern = <<>> => ret_bool
        /\ Len(pattern) > Len(Content(TextObject)) => ~ret_bool

\* P is longer than T and T pairs up with the start of P.
C15_Witness ==
    /\ op = "starts_with"
    /\ ~ret_bool
    /\ Len(Content(TextObject)) = 1
    /\ Len(pattern) = 2
    /\ compare(comparer, Content(TextObject)[1], pattern[1])

\* C16: ends_with(T, P, c) is starts_with(reverse(T), reverse(P), c): true
\* exactly when the last len(P) units of T match P position by position, for
\* null-terminated buffers as for the other shapes.
C16_EndsWithIsReversedStartsWith ==
    op = "ends_with" =>
        /\ ret_bool = starts_with(StringObject(Reverse(Content(TextObject))),
                                  StringObject(Reverse(pattern)), comparer)
        /\ ret_bool = IsSuffix(Content(TextObject), pattern, comparer)

\* A null-terminated text ends with a two-unit ending that it does not start
\* with.
C16_Witness ==
    /\ op = "ends_with"
    /\ shape = "buffer"
    /\ ret_bool
    /\ Len(pattern) = 2
    /\ Len(text) = 4
    /\ ~IsPrefix(text, pattern, comparer)

\* C17: equals(A, B, c) is true iff len(A) = len(B) and c(A[k], B[k]) for
\* every k < len(A); sequences of different length are never equal and two
\* empty sequences are.
C17_EqualsIffSameLengthAndUnits ==
    op = "equals" =>
        LET a == Content(TextObject)
        IN  /\ ret_bool = ( /\ Len(a) = Len(pattern)
                            /\ \A k \in 1..Len(a) : compare(comparer, a[k], pattern[k]) )
            /\ Len(a) # Len(pattern) => ~ret_bool
            /\ (a = <<>> /\ pattern = <<>>) => ret_bool

\* B pairs up with the start of the longer A.
C17_Witness ==
    /\ op = "equals"
    /\ ~ret_bool
    /\ Len(pattern) = 2
    /\ Len(Content(TextObject)) = 3
    /\ IsPrefix(Content(TextObject), pattern, comparer)

\* ---------------------------------------------------------------- replace without a match
\* C18: when the non-empty P does not occur in T, replace_all_copy(T, P, R)
\* returns T for every R and replace_all_in_place(T, P, R) leaves the content
\* and the length of T as they are; so for a P of which only a start matches
\* the end of T and for a P longer than T.
C18_NoMatchNoChange ==
    [][(pattern # <<>> /\ ~Occurs(text, pattern, comparer)) =>
        /\ op' = "replace_all_copy" => (thrown' = "none" /\ ret_text' = text)
        /\ op' = "replace_all_in_place" =>
              (thrown' = "none" /\ text' = text /\ Len(text') = Len(text))]_vars

\* The first unit of P matches the last unit of T, P does not occur in T, and
\* the replacement holds P, so that no replacement has been made.
C18_Witness ==
    /\ op = "replace_all_in_place"
    /\ thrown = "none"
    /\ Len(pattern) = 2
    /\ Len(text) = 4
    /\ ~Occurs(text, pattern, comparer)
    /\ compare(comparer, text[4], pattern[1])
    /\ Occurs(replacement, pattern, comparer)

\* ---------------------------------------------------------------- advance(count), advance_to_last
\* The iterator after n single steps with ++.
RECURSIVE Stepped(_, _)
Stepped(it, n) ==
    IF n = 0 THEN it ELSE Stepped(increment(it, text, pattern, comparer), n - 1)

\* The sections from the current one on that stepping with ++ until
\* termination yields.
Ahead(it) == SectionsFrom(it, text, pattern, comparer)

\* C19: advance(n) leaves the iterator as n single steps with ++ do, stopping
\* at the step that makes is_end_position() true, and returns whether the
\* iterator is not at end afterwards: advance(0) returns true on a
\* non-terminal iterator and changes nothing, advance(n) returns false when
\* fewer than n further sections exist.
C19_AdvanceIsRepeatedIncrement ==
    [][op' = "advance" =>
        /\ split_it' = Stepped(split_it, count')
        /\ ret_bool' = ~split_it'.is_end
        /\ ret_bool' = (count' < Len(Ahead(split_it)))
        /\ ret_bool' => split_it'.current_range = Ahead(split_it)[count' + 1]
        /\ (count' = 0 /\ ~split_it.is_end) => (ret_bool' /\ split_it' = split_it)]_vars

\* advance(2) has moved a token iterator from the first of at least four
\* sections to the third.
C19_Witness ==
    /\ op = "advance"
    /\ count = 2
    /\ ret_bool
    /\ split_it.kind = "token"
    /\ Len(Ahead(Constructed("token", mode))) >= 4
    /\ split_it.current_range = Ahead(Constructed("token", mode))[3]
    /\ Len(Ahead(split_it)) >= 2

\* C20: advance_to_last() on an iterator that is not at end leaves it not at
\* end, on the final section that stepping with ++ until termination would
\* have yielded, and returns true; on an iterator at end it returns false and
\* changes nothing; a second call changes nothing.
C20_AdvanceToLastIsFinalSection ==
    [][op' = "advance_to_last" =>
        /\ ret_bool' = ~split_it.is_end
        /\ split_it.is_end => split_it' = split_it
        /\ ~split_it.is_end =>
              /\ ~split_it'.is_end
              /\ split_it'.current_range = Ahead(split_it)[Len(Ahead(split_it))]
              /\ Len(Ahead(split_it')) = 1
        /\ advance_to_last(split_it', text, pattern, comparer) = split_it']_vars

\* In mode skip_empty a character iterator has been moved from the first of
\* two sections to the last, an empty section lying behind it.
C20_Witness ==
    /\ op = "advance_to_last"
    /\ ret_bool
    /\ split_it.kind = "chars"
    /\ split_it.used_mode = "skip_empty"
    /\ Len(Ahead(Constructed("chars", "skip_empty"))) = 2
    /\ split_it.current_range = Ahead(Constructed("chars", "skip_empty"))[2]
    /\ text # <<>>
    /\ is_any_of(pattern, text[Len(text)])

\* ---------------------------------------------------------------- join
\* item_k + separator + ... + item_n, the separator between neighbours only.
RECURSIVE Interleaved(_, _, _)
Interleaved(items, k, separator) ==
    IF k > Len(items)
    THEN <<>>
    ELSE IF k = Len(items)
         THEN items[k]
         ELSE items[k] \o separator \o Interleaved(items, k + 1, separator)

\* C21: join(target, items, separator, clear_target) leaves target as
\* prefix + item_1 + separator + ... + separator + item_n, where prefix is empty
\* when clear_target is set and the content target had before the call
\* otherwise; the separator stands between consecutive items only, and for an
\* empty item list target is the prefix.
C21_JoinIsPrefixThenInterleavedItems ==
    [][op' = "join" =>
        /\ target' = (IF clear' THEN <<>> ELSE target) \o Interleaved(container, 1, pattern)
        /\ container = <<>> => target' = (IF clear' THEN <<>> ELSE target)]_vars

\* Two items have been appended to a target that was kept.
C21_Witness ==
    /\ op = "join"
    /\ ~clear
    /\ Len(container) = 2
    /\ Len(pattern) = 1
    /\ Len(target) = 4
    /\ target # Interleaved(container, 1, pattern)


\* ---------------------------------------------------------------- case
\* C22: for texts T and patterns P of single-byte units, icontains(T, P) is
\* contains(to_lower_copy(T), to_lower_copy(P)).
C22_IContainsIsContainsOfLowered ==
    op = "icontains" =>
        ret_bool = contains(to_lower_copy(StringObject(text)),
                            to_lower_copy(StringObject(pattern)), "equals")

\* A pattern of two units is found although its units differ in case from the
\* units of the text, next to a unit that has no lower case in the classic locale.
C22_Witness ==
    /\ op = "icontains"
    /\ ret_bool
    /\ Len(pattern) = 2
    /\ pattern[1] = UpperA
    /\ ~contains(text, pattern, "equals")
    /\ \E k \in 1..Len(text) : text[k] = UpperADiaeresis

\* The units the converter makes of one unit.
UnitsOf(conv, value) ==
    IF is_integral(conv) THEN <<convert(conv, value)>> ELSE convert(conv, value)

\* The concatenation of the texts of a sequence, in order.
RECURSIVE ConcatAll(_)
ConcatAll(texts) ==
    IF texts = <<>> THEN <<>> ELSE Head(texts) \o ConcatAll(Tail(texts))

\* C24: character_convert_copy(T, conv) is the in-order concatenation of
\* conv(u) for every unit u of T, a sequence result contributing all of its
\* units and a single-unit result one; for a 1:1 converter the result has the
\* length of T and is the content character_convert_in_place produces, which
\* overwrites each unit of the text, leaves the units outside of it alone and
\* never changes the length.
C24_ConvertCopyIsConcatenation ==
    [][/\ op' = "character_convert_copy" =>
             /\ ret_text' = ConcatAll([k \in 1..Len(text) |-> UnitsOf(converter', text[k])])
             /\ is_integral(converter') =>
                   /\ Len(ret_text') = Len(text)
                   /\ ret_text' = Content(character_convert_in_place(TextObject, converter'))
       /\ op' = "character_convert_in_place" =>
             /\ Content(TextObject)'
                   = character_convert_copy(StringObject(Content(TextObject)), converter')
             /\ Len(Content(TextObject)') = Len(Content(TextObject))
             /\ Len(text') = Len(text)
             /\ Len(buffer') = Len(buffer)
             /\ view' = view
             /\ shape = "range" =>
                   \A k \in 1..Len(text) :
                       k \notin view.begin..(view.end - 1) => text'[k] = text[k]]_vars

\* The converter has returned three units for one unit of the text and one
\* unit for the others.
C24_Witness ==
    /\ op = "character_convert_copy"
    /\ converter = "lambda_123"
    /\ Len(text) = 3
    /\ text[2] = UpperA
    /\ text[1] # UpperA
    /\ text[3] # UpperA
    /\ Len(ret_text) = 5


\* ---------------------------------------------------------------- shapes
\* The string object that holds the content of the text operand.
TextAsString == StringObject(Content(TextObject))

\* C23: for a content without a zero unit, contains, starts_with, ends_with,
\* equals, the token split and the character split give for a text and a
\* second operand held in a null-terminated buffer, in a range or in a string
\* object what they give for string objects of the same content.
C23_ShapeUniformity ==
    /\ op = "contains" =>
          ret_bool = contains_text(TextAsString, StringObject(pattern), comparer)
    /\ op = "starts_with" =>
          ret_bool = starts_with(TextAsString, StringObject(pattern), comparer)
    /\ op = "ends_with" =>
          ret_bool = ends_with(TextAsString, StringObject(pattern), comparer)
    /\ op = "equals" =>
          ret_bool = equals(TextAsString, StringObject(pattern), comparer)
    /\ op = "split_token" =>
          LET r == split_token_text(<<>>, TextAsString, StringObject(pattern), mode,
                                    comparer, TRUE)
          IN  thrown = r.thrown /\ container = r.container
    /\ op = "split" =>
          container = split_text(<<>>, TextAsString, StringObject(pattern), mode, TRUE)

\* A raw buffer with a unit behind its terminating null has been split into
\* three sections.
C23_Witness ==
    /\ op = "split_token"
    /\ shape = "buffer"
    /\ Len(text) = 4
    /\ Len(buffer) = 6
    /\ mode = "all"
    /\ Len(container) = 3


\* ---------------------------------------------------------------- comparers
\* The comparers as relations between a unit of the text operand and a unit of
\* the pattern operand: equality, (a, b) -> b == '?' or a == b, and
\* (a, b) -> a - 1 == b.
Pairs(c, text_unit, pattern_unit) ==
    \/ c = "equals" /\ text_unit = pattern_unit
    \/ c = "wildcard" /\ (pattern_unit = Wildcard \/ text_unit = pattern_unit)
    \/ c = "shifted" /\ text_unit - 1 = pattern_unit

\* The units of s from index i on pair up with the units of p.
PairsAt(s, i, p, c) ==
    /\ i + Len(p) - 1 <= Len(s)
    /\ \A k \in 1..Len(p) : Pairs(c, s[i + k - 1], p[k])

\* One left-to-right scan of s from index i that puts r where p pairs up.
RECURSIVE PairedReplace(_, _, _, _, _)
PairedReplace(s, i, p, r, c) ==
    IF i > Len(s) THEN <<>>
    ELSE IF PairsAt(s, i, p, c)
         THEN r \o PairedReplace(s, i + Len(p), p, r, c)
         ELSE <<s[i]>> \o PairedReplace(s, i + 1, p, r, c)

\* The texts between the places where p pairs up, scanning s from index i.
RECURSIVE PairedSections(_, _, _, _)
PairedSections(s, i, p, c) ==
    LET hits == {j \in i..Len(s) : PairsAt(s, j, p, c)}
    IN  IF hits = {}
        THEN <<SubSeq(s, i, Len(s))>>
        ELSE <<SubSeq(s, i, Minimum(hits) - 1)>>
                 \o PairedSections(s, Minimum(hits) + Len(p), p, c)

IsNonEmptyText(s) == s # <<>>

\* C25: contains, starts_with, ends_with, equals, replace_all and the token
\* split call the comparer as comparer(unit of the text, unit of the pattern):
\* their results are those of the relation the comparer defines, also for the
\* asymmetric comparers (a, b) -> a - 1 == b and (a, b) -> b == '?' or a == b,
\* and replace_all gives the same text in its copy and in its in-place variant.
C25_ComparerTakesTextUnitThenPatternUnit ==
    [][/\ op' = "contains" =>
             ret_bool' = (pattern = <<>> \/ \E i \in 1..Len(text) : PairsAt(text, i, pattern, comparer))
       /\ op' = "starts_with" =>
             ret_bool' = PairsAt(text, 1, pattern, comparer)
       /\ op' = "ends_with" =>
             ret_bool' = ( /\ Len(pattern) <= Len(text)
                           /\ PairsAt(text, Len(text) - Len(pattern) + 1, pattern, comparer) )
       /\ op' = "equals" =>
             ret_bool' = (Len(text) = Len(pattern) /\ PairsAt(text, 1, pattern, comparer))
       /\ (op' = "replace_all_copy" /\ thrown' = "none") =>
             ret_text' = PairedReplace(text, 1, pattern, replacement, comparer)
       /\ (op' = "replace_all_in_place" /\ thrown' = "none") =>
             text' = PairedReplace(text, 1, pattern, replacement, comparer)
       /\ (op' = "split_token" /\ thrown' = "none") =>
             container' = (IF mode = "all"
                           THEN PairedSections(text, 1, pattern, comparer)
                           ELSE SelectSeq(PairedSections(text, 1, pattern, comparer),
                                          IsNonEmptyText))]_vars

\* The text of the shifted units of the pattern has been replaced in place
\* where the pattern itself does not occur.
C25_Witness ==
    /\ op = "replace_all_in_place"
    /\ thrown = "none"
    /\ comparer = "shifted"
    /\ pattern = <<1>>
    /\ replacement = <<1, 1>>
    /\ text = <<1, 1, 1, 1, 1>>


\* ---------------------------------------------------------------- terminal state
\* C26: once is_end_position() of a split iterator is true, every further ++,
\* advance(n) and advance_to_last() leaves it true and the current section
\* empty, advance(n) and advance_to_last() return false, and is_end_position()
\* never goes back to false.
C26_TerminalStateIsStable ==
    [][(split_it # NoIterator /\ split_it.is_end) =>
          /\ split_it'.is_end
          /\ split_it'.current_range.begin = split_it'.current_range.end
          /\ split_it.current_range.begin = split_it.current_range.end
          /\ op' \in {"advance", "advance_to_last"} => ~ret_bool']_vars

\* advance_to_last() has returned false for an iterator in mode all over a
\* text of four units, which it only does for an iterator that was at end.
C26_Witness ==
    /\ op = "advance_to_last"
    /\ mode = "all"
    /\ split_it # NoIterator
    /\ split_it.is_end
    /\ ~ret_bool
    /\ Len(text) = 4
    /\ Len(yielded) >= 2


\* ---------------------------------------------------------------- token sections
\* The token iterator exists and has yielded a section.
TokenYielded == split_it # NoIterator /\ split_it.kind = "token" /\ yielded # <<>>

\* Every section seen so far ends where the leftmost separator match at or
\* after its start begins, or at the end of the text when there is none; each
\* later section starts where a separator match ends, at or behind the end of
\* the section before it.
SectionsBetweenMatches ==
    \A k \in 1..Len(yielded) :
        LET section == yielded[k]
        IN  /\ section.begin <= section.end
            /\ \A j \in section.begin..(section.end - 1) :
                   ~MatchesAt(text, j, pattern, comparer)
            /\ \/ MatchesAt(text, section.end, pattern, comparer)
               \/ /\ section.end = Len(text) + 1
                  /\ \A j \in section.begin..Len(text) :
                         ~MatchesAt(text, j, pattern, comparer)
            /\ k > 1 =>
                  /\ section.begin - Len(pattern) >= 1
                  /\ MatchesAt(text, section.begin - Len(pattern), pattern, comparer)
                  /\ yielded[k - 1].end <= section.begin - Len(pattern)

\* Each later section starts where the match that ended the section before it
\* ends.
SectionsAreConsecutive ==
    \A k \in 2..Len(yielded) : yielded[k].begin = yielded[k - 1].end + Len(pattern)

\* The first section starts at the start of the text and, when the iterator is
\* at end, the last one ends at the end of the text.
SectionsSpanText ==
    /\ yielded[1].begin = 1
    /\ split_it.is_end => yielded[Len(yielded)].end = Len(text) + 1

\* C27 as stated, for both split modes: in token mode every yielded section
\* is [previous_match_end, next_match_start), the first section starts at the
\* text start, each later one where the previous separator match ended, and
\* the last one ends at the text end.
C27_TokenSectionsSpanTextInEveryMode ==
    TokenYielded => (SectionsBetweenMatches /\ SectionsSpanText)

\* C27: in token mode every yielded section is [previous_match_end,
\* next_match_start), the match being the leftmost one at or after the section
\* start: sections never overlap and contain no occurrence of the separator.
\* In mode all the first section starts at the text start, each later section
\* starts where the match that ended the previous section ends, and the last
\* section ends at the text end.
C27_TokenSectionsBetweenMatches ==
    TokenYielded =>
        /\ SectionsBetweenMatches
        /\ mode = "all" => (SectionsSpanText /\ SectionsAreConsecutive)

\* Three sections have been cut out between two matches of a separator of one
\* unit under the asymmetric comparer.
C27_Witness ==
    /\ TokenYielded
    /\ split_it.is_end
    /\ mode = "all"
    /\ comparer = "shifted"
    /\ Len(pattern) = 1
    /\ Len(yielded) = 3
    /\ yielded[2].begin # yielded[2].end


\* ---------------------------------------------------------------- character sections
\* The indexes of the units of the text that are separator characters.
SeparatorUnits ==
    {j \in 1..Len(text) : \E k \in 1..Len(pattern) : pattern[k] = text[j]}

\* The sections seen from the k-th on, each but the last followed by the unit
\* behind its end.
RECURSIVE SectionsWithSeparators(_)
SectionsWithSeparators(k) ==
    IF k > Len(yielded)
    THEN <<>>
    ELSE SubSeq(text, yielded[k].begin, yielded[k].end - 1)
             \o (IF k < Len(yielded) THEN <<text[yielded[k].end]>> ELSE <<>>)
             \o SectionsWithSeparators(k + 1)

\* C28: in character mode with split_mode::all the iterator yields exactly
\* k + 1 sections, k the number of units of the text that satisfy the
\* predicate; no section contains such a unit, the first section starts at the
\* text start, every later section starts one unit after the end of the
\* section before it, and the sections with the k separator units put back
\* between them are the text.
C28_CharacterSectionsInModeAll ==
    (split_it # NoIterator /\ split_it.kind = "chars" /\ mode = "all") =>
        /\ yielded # <<>>
        /\ yielded[1].begin = 1
        /\ \A k \in 1..Len(yielded) :
               /\ yielded[k].begin <= yielded[k].end
               /\ \A j \in yielded[k].begin..(yielded[k].end - 1) : j \notin SeparatorUnits
               /\ k > 1 =>
                     /\ yielded[k].begin = yielded[k - 1].end + 1
                     /\ yielded[k - 1].end \in SeparatorUnits
        /\ Len(yielded) <= Cardinality(SeparatorUnits) + 1
        /\ split_it.is_end =>
               /\ Len(yielded) = Cardinality(SeparatorUnits) + 1
               /\ SectionsWithSeparators(1) = text

\* A text of four units that starts with a separator character and ends with
\* one has been split into three sections.
C28_Witness ==
    /\ split_it # NoIterator
    /\ split_it.kind = "chars"
    /\ mode = "all"
    /\ split_it.is_end
    /\ Len(text) = 4
    /\ SeparatorUnits = {1, 4}
    /\ Len(yielded) = 3


\* ---------------------------------------------------------------- find
\* The indexes of the content of the text operand where the pattern matches.
Occurrences ==
    {i \in 1..Len(Content(TextObject)) :
        MatchesAt(Content(TextObject), i, pattern, comparer)}

\* The position of the storage the index i of the content is at.
PositionOf(i) == TextObject.begin + i - 1

\* C29: for a non-empty pattern find_forward returns the leftmost occurrence:
\* when the pattern occurs the range [b, e) has the smallest start b there is,
\* spans len(pattern) units and b is not at the text end; when it does not
\* occur the range is empty with begin and end at the text end; so begin is at
\* end exactly when the pattern was not found.
C29_FindReturnsLeftmostOccurrence ==
    (op = "find_forward_optimized" /\ pattern # <<>>) =>
        LET text_end == PositionOf(Len(Content(TextObject)) + 1)
        IN  /\ Occurrences # {} =>
                  /\ ret_range.begin = PositionOf(Minimum(Occurrences))
                  /\ ret_range.end = ret_range.begin + Len(pattern)
                  /\ ret_range.begin # text_end
            /\ Occurrences = {} =>
                  /\ ret_range.begin = text_end
                  /\ ret_range.end = text_end
            /\ ret_bool = (ret_range.begin # text_end)
            /\ (ret_range.begin = text_end) = (Occurrences = {})

\* The pattern of two units pairs up with the text at its last two units only,
\* after a start of a match that failed.
C29_Witness ==
    /\ op = "find_forward_optimized"
    /\ shape = "range"
    /\ view = [begin |-> 1, end |-> 5]
    /\ Len(pattern) = 2
    /\ Occurrences = {3}
    /\ text[1] = pattern[1]
    /\ ret_range = [begin |-> 3, end |-> 5]


\* ---------------------------------------------------------------- termination
\* The sections seen are the states that were not at end: the ++ steps taken
\* from the constructed state number as many when the iterator is at end.
StepsAreBounded ==
    split_it # NoIterator => Len(yielded) <= Len(text) + 2

\* A ++ from a section to a further section moves the section start forward.
StepMovesSectionStart ==
    (op' = "operator++" /\ ~split_it.is_end /\ ~split_it'.is_end) =>
        /\ split_it'.current_range.begin > split_it.current_range.begin
        /\ split_it'.current_range.begin >= split_it.current_range.end

\* C30: for both split iterators, both modes and every text and separator,
\* stepping with ++ from the constructed state reaches is_end_position() after
\* at most len(text) + 2 steps, and every step that does not reach the end
\* moves the section start strictly forward.
C30_IterationTerminates ==
    /\ []StepsAreBounded
    /\ [][StepMovesSectionStart]_vars
    /\ (split_it # NoIterator) ~> (split_it # NoIterator /\ split_it.is_end)

\* The character iterator is at end after it has yielded one section more
\* than the text has units.
C30_Witness ==
    /\ split_it # NoIterator
    /\ split_it.is_end
    /\ op = "operator++"
    /\ Len(text) = 4
    /\ Len(yielded) = 5


====
